---------------------------- MODULE Spec2Model ----------------------------
(***************************************************************************)
(* A model of the kbmod search core: the ImageStack (image_stack.cpp), the *)
(* TrajectoryList (trajectory_list.h) and the grid search of KBMOSearch    *)
(* (KBMOSearch.cpp).  Every operation records what it returned or raised   *)
(* in `ret`, so that a property of a call is a property of the state the   *)
(* call leaves behind.                                                     *)
(***************************************************************************)
EXTENDS Integers, Sequences, FiniteSets

VARIABLES
    images,             \* ImageStack::images, a sequence of LayeredImages
    ret,                \* the last call: its name, arguments and outcome
    max_size,           \* TrajectoryList::max_size
    data_on_gpu,        \* TrajectoryList::data_on_gpu
    cpu_list,           \* TrajectoryList::cpu_list
    gpu_list,           \* the block gpu_list_ptr points to (<<>> when null)
    have_cuda,          \* the build defines HAVE_CUDA
    params,             \* KBMOSearch::params (SearchParameters)
    psi_phi_generated,  \* KBMOSearch::psi_phi_generated
    psi_images,         \* KBMOSearch::psi_images
    phi_images,         \* KBMOSearch::phi_images
    search_list,        \* KBMOSearch::search_list
    results             \* KBMOSearch::results

stackVars == <<images>>
listVars == <<max_size, data_on_gpu, cpu_list, gpu_list>>
searchVars == <<have_cuda, params, psi_phi_generated, psi_images, phi_images,
                search_list, results>>

vars == <<images, ret, listVars, searchVars>>

----------------------------------------------------------------------------
(* Bounds of the model.                                                    *)

\* The largest number of images of a stack.
MaxImages == 2

\* The (width, height) pairs of the LayeredImages handed to the constructor.
Dims == {<<1, 1>>, <<2, 1>>}

\* The integer values of a mask pixel (bit flags stored as float).
MaskValues == {0, 1}

\* The observation times of the images.
ObsTimes == {0, 1}

\* The flag sets and thresholds make_global_mask is called with.
FlagValues == 0..3
ThresholdValues == -1..(MaxImages + 1)

\* The indices the accessors are called with: every valid index, the first
\* index past the end, one beyond it, and a negative one.
IndexValues == -1..(MaxImages + 1)

----------------------------------------------------------------------------
(* Helpers.                                                                *)

\* flags & mask of two non-negative ints.
RECURSIVE BitAnd(_, _)
BitAnd(a, b) ==
    IF a = 0 \/ b = 0 THEN 0
    ELSE (a % 2) * (b % 2) + 2 * BitAnd(a \div 2, b \div 2)

Range(s) == {s[i] : i \in DOMAIN s}

\* The sequence s with every element evaluated.
Evaluated(s) == <<>> \o s

\* All sequences over S of length 0..n.
SeqsUpTo(S, n) == UNION {[1..k -> S] : k \in 0..n}

----------------------------------------------------------------------------
(* LayeredImage: three layers of width*height pixels (row-major) and an    *)
(* observation time.                                                       *)

LayeredImage(w, h, t, sci, var, mask) ==
    [width |-> w, height |-> h, obstime |-> t,
     science |-> sci, variance |-> var, mask |-> mask]

\* The images a stack of the ImageStack model is built from: every shape of
\* Dims, every mask over MaskValues, every time of ObsTimes; the science and
\* variance layers, which no ImageStack operation of image_stack.cpp reads,
\* hold 1 everywhere.
StackImages ==
    UNION {
        {LayeredImage(d[1], d[2], t, [p \in 1..(d[1] * d[2]) |-> 1],
                      [p \in 1..(d[1] * d[2]) |-> 1], m) :
            t \in ObsTimes, m \in [1..(d[1] * d[2]) -> MaskValues]} :
        d \in Dims}

----------------------------------------------------------------------------
(* ImageStack (image_stack.cpp, ImageStack.h).                             *)

\* ImageStack::ImageStack(imgs): images = imgs, with no check of the sizes.
ImageStack(imgs) == imgs

img_count(imgs) == Len(imgs)
get_width(imgs) == IF Len(imgs) > 0 THEN imgs[1].width ELSE 0
get_height(imgs) == IF Len(imgs) > 0 THEN imgs[1].height ELSE 0
get_npixels(imgs) == IF Len(imgs) > 0 THEN imgs[1].width * imgs[1].height ELSE 0

\* The bounds check the three accessors share: index < 0 || index > size.
\* Indices are 0-based as in the code; image i is imgs[i + 1].
StackIndexRejected(imgs, index) == index < 0 \/ index > Len(imgs)

\* images[index] names an element of the vector.
StackElementExists(imgs, index) == index >= 0 /\ index < Len(imgs)

\* What one call leaves in `ret`.  oob: the call read or wrote an element
\* that does not exist (undefined behaviour).
Returned(op, args, value, oob) ==
    [op |-> op, args |-> args, status |-> "ok", value |-> value, oob |-> oob]
Raised(op, args, what) ==
    [op |-> op, args |-> args, status |-> what, value |-> <<>>, oob |-> FALSE]

\* images[index].get_obstime(); past the end of the vector the read yields
\* whatever the memory holds, g.
ObstimeAt(imgs, index, g) ==
    IF StackElementExists(imgs, index) THEN imgs[index + 1].obstime ELSE g

\* LayeredImage& ImageStack::get_single_image(int index)
get_single_image(index) ==
    /\ \/ /\ StackIndexRejected(images, index)
          /\ ret' = Raised("get_single_image", [index |-> index], "out_of_range")
       \/ /\ ~StackIndexRejected(images, index)
          /\ StackElementExists(images, index)
          /\ ret' = Returned("get_single_image", [index |-> index],
                             images[index + 1], FALSE)
       \/ /\ ~StackIndexRejected(images, index)
          /\ ~StackElementExists(images, index)
          /\ \E g \in StackImages :
                ret' = Returned("get_single_image", [index |-> index], g, TRUE)
    /\ UNCHANGED <<stackVars, listVars, searchVars>>

\* float ImageStack::get_obstime(int index) const
get_obstime(index) ==
    /\ \/ /\ StackIndexRejected(images, index)
          /\ ret' = Raised("get_obstime", [index |-> index], "out_of_range")
       \/ /\ ~StackIndexRejected(images, index)
          /\ \E g \in ObsTimes :
                ret' = Returned("get_obstime", [index |-> index],
                                ObstimeAt(images, index, g),
                                ~StackElementExists(images, index))
    /\ UNCHANGED <<stackVars, listVars, searchVars>>

\* images[index].get_obstime() - images[0].get_obstime()
ZeroedTime(imgs, index, g) ==
    ObstimeAt(imgs, index, g) - ObstimeAt(imgs, 0, g)

\* float ImageStack::get_zeroed_time(int index) const
get_zeroed_time(index) ==
    /\ \/ /\ StackIndexRejected(images, index)
          /\ ret' = Raised("get_zeroed_time", [index |-> index], "out_of_range")
       \/ /\ ~StackIndexRejected(images, index)
          /\ \E g \in ObsTimes :
                ret' = Returned("get_zeroed_time", [index |-> index],
                                ZeroedTime(images, index, g),
                                ~(StackElementExists(images, index)
                                  /\ StackElementExists(images, 0)))
    /\ UNCHANGED <<stackVars, listVars, searchVars>>

\* The vector build_zeroed_times() returns: empty for an empty stack, else
\* obstime(i) - t0 for every image in order, t0 the first image's time.
ZeroedTimesMutant(imgs) ==
    IF Len(imgs) > 0
    THEN [i \in 1..Len(imgs) |-> imgs[i].obstime]
    ELSE <<>>
ZeroedTimes(imgs) ==
    IF Len(imgs) > 0
    THEN LET t0 == imgs[1].obstime
         IN  [i \in 1..Len(imgs) |-> imgs[i].obstime - t0]
    ELSE <<>>

\* std::vector<float> ImageStack::build_zeroed_times() const
build_zeroed_times ==
    /\ ret' = Returned("build_zeroed_times", <<>>, ZeroedTimes(images), FALSE)
    /\ UNCHANGED <<stackVars, listVars, searchVars>>

\* The images whose mask has fewer pixels than image 0: make_global_mask
\* reads npixels (of image 0) pixels of every mask.
ShortMasks(imgs) ==
    {i \in 1..Len(imgs) : Len(imgs[i].mask) < get_npixels(imgs)}

\* imgMask[pixel] of image img (pixel 1-based); g[img] is what a read past
\* the end of that mask yields.
MaskAt(imgs, img, pixel, g) ==
    IF pixel <= Len(imgs[img].mask) THEN imgs[img].mask[pixel] ELSE g[img]

\* counts[pixel]: the images where (flags & mask) != 0.
MaskCount(imgs, flags, pixel, g) ==
    Cardinality({img \in 1..Len(imgs) :
                    BitAnd(flags, MaskAt(imgs, img, pixel, g)) # 0})

\* The RawImage make_global_mask returns.
GlobalMask(imgs, flags, threshold, g) ==
    [width |-> get_width(imgs), height |-> get_height(imgs),
     pixels |-> [p \in 1..get_npixels(imgs) |->
                    IF MaskCount(imgs, flags, p, g) < threshold THEN 0 ELSE 1]]

\* RawImage ImageStack::make_global_mask(int flags, int threshold)
make_global_mask(flags, threshold) ==
    /\ \E g \in [ShortMasks(images) -> MaskValues] :
          ret' = Returned("make_global_mask",
                          [flags |-> flags, threshold |-> threshold],
                          GlobalMask(images, flags, threshold, g),
                          ShortMasks(images) # {})
    /\ UNCHANGED <<stackVars, listVars, searchVars>>

\* No TrajectoryList: the specification constructs none.
NoList ==
    /\ max_size = 0
    /\ data_on_gpu = FALSE
    /\ cpu_list = <<>>
    /\ gpu_list = <<>>

\* No KBMOSearch: the specification constructs none.
NoSearch ==
    /\ have_cuda = FALSE
    /\ params = <<>>
    /\ psi_phi_generated = FALSE
    /\ psi_images = <<>>
    /\ phi_images = <<>>
    /\ search_list = <<>>
    /\ results = <<>>

InitStack ==
    /\ \E imgs \in SeqsUpTo(StackImages, MaxImages) :
          /\ images = ImageStack(imgs)
          /\ ret = Returned("ImageStack", [imgs |-> imgs], <<>>, FALSE)
    /\ NoList
    /\ NoSearch

NextStack ==
    \/ \E index \in IndexValues : get_single_image(index)
    \/ \E index \in IndexValues : get_obstime(index)
    \/ \E index \in IndexValues : get_zeroed_time(index)
    \/ build_zeroed_times
    \/ \E flags \in FlagValues, threshold \in ThresholdValues :
          make_global_mask(flags, threshold)

\* The ImageStack and its callers.
SpecStack == InitStack /\ [][NextStack]_vars

----------------------------------------------------------------------------
(* Claims about the ImageStack, checked under SpecStack.                   *)

\* Image i (1-based) has a mask pixel p and it carries one of the flags.
Flagged(imgs, i, p, flags) ==
    /\ p <= Len(imgs[i].mask)
    /\ BitAnd(flags, imgs[i].mask[p]) # 0

\* The mask the documentation of make_global_mask describes.
DocumentedMask(imgs, flags, threshold) ==
    [width |-> get_width(imgs), height |-> get_height(imgs),
     pixels |-> [p \in 1..get_npixels(imgs) |->
        IF Cardinality({i \in 1..Len(imgs) : Flagged(imgs, i, p, flags)})
              >= threshold
        THEN 1 ELSE 0]]

\* All images of the stack have the width and height of image 0.
UniformStack(imgs) ==
    \A i \in 1..Len(imgs) :
        /\ imgs[i].width = get_width(imgs)
        /\ imgs[i].height = get_height(imgs)

\* C1: for every stack, flags and threshold, make_global_mask returns an
\* image of the stack's width and height whose pixel is 1 exactly when at
\* least `threshold` images have (mask & flags) != 0 at that pixel, and 0
\* otherwise.
C1_GlobalMaskAsDocumented ==
    ret.op = "make_global_mask" =>
        ret.value = DocumentedMask(images, ret.args.flags, ret.args.threshold)

\* C1 on the stacks whose images share one size (the stacks C5 describes):
\* there make_global_mask returns the documented mask.
GlobalMaskOnUniformStacks ==
    (ret.op = "make_global_mask" /\ UniformStack(images)) =>
        /\ ret.value = DocumentedMask(images, ret.args.flags, ret.args.threshold)
        /\ \A p \in DOMAIN ret.value.pixels : ret.value.pixels[p] \in {0, 1}
        /\ ~ret.oob

\* C2: two calls of make_global_mask with the same flags and threshold on
\* the same stack return identical masks, and a call changes no image and
\* not the image count.
C2_GlobalMaskRepeatable ==
    [][(/\ ret.op = "make_global_mask"
        /\ ret'.op = "make_global_mask"
        /\ ret'.args = ret.args)
       => (ret'.value = ret.value /\ images' = images)]_vars

\* C2 without the repetition: no call of make_global_mask changes the
\* stack.
GlobalMaskLeavesStack ==
    [][ret'.op = "make_global_mask" => images' = images]_vars

\* C3: for a non-empty stack and a valid index i, get_zeroed_time(i) is
\* obstime(i) - obstime(0) (negative when image i is the earlier one);
\* build_zeroed_times() returns img_count entries, the i-th equal to
\* get_zeroed_time(i) and the first 0, and an empty list for an empty stack.
C3_ZeroedTimes ==
    /\ (/\ ret.op = "get_zeroed_time"
        /\ ret.args.index \in 0..(Len(images) - 1))
       => /\ ret.status = "ok"
          /\ ret.value = images[ret.args.index + 1].obstime - images[1].obstime
    /\ ret.op = "build_zeroed_times"
       => /\ ret.status = "ok"
          /\ Len(ret.value) = img_count(images)
          /\ \A i \in 0..(Len(images) - 1) :
                /\ ret.value[i + 1] = images[i + 1].obstime - images[1].obstime
                /\ ret.value[i + 1] = ZeroedTime(images, i, 0)
          /\ Len(images) > 0 => ret.value[1] = 0
          /\ Len(images) = 0 => ret.value = <<>>

\* C3's case: build_zeroed_times() has run on a stack of two images, the
\* second earlier than the first, and returned a negative time for it.
C3_Witness ==
    /\ ret.op = "build_zeroed_times"
    /\ Len(images) = 2
    /\ images[2].obstime < images[1].obstime
    /\ ret.value[2] < 0

\* C4: for every index outside 0..N-1, get_single_image, get_obstime and
\* get_zeroed_time raise an out-of-bounds error and read no image element
\* that does not exist.
C4_OutOfBoundsRaises ==
    (/\ ret.op \in {"get_single_image", "get_obstime", "get_zeroed_time"}
     /\ ret.args.index \notin 0..(Len(images) - 1))
    => (ret.status = "out_of_range" /\ ~ret.oob)

\* C5: in every reachable ImageStack all images have the same width and
\* height, the ones get_width/get_height report.
C5_SharedSize == UniformStack(images)

----------------------------------------------------------------------------
(* Trajectory and TrajectoryList (trajectory_list.h).                      *)

\* The largest capacity of a TrajectoryList.
MaxListSize == 2

Trajectory(x, y, vx, vy, lh, flux, obs_count) ==
    [x |-> x, y |-> y, vx |-> vx, vy |-> vy,
     lh |-> lh, flux |-> flux, obs_count |-> obs_count]

\* A value-initialised Trajectory.
DefaultTrajectory == Trajectory(0, 0, 0, 0, 0, 0, 0)

\* The trajectories written to a list, by the host or by a kernel.
ListTrajectories == {DefaultTrajectory, Trajectory(1, 0, 1, 0, 5, 5, 2)}

\* The indices get_trajectory and set_trajectory are called with.
ListIndexValues == -1..(MaxListSize + 1)

\* TrajectoryList(max_list_size): max_list_size value-initialised
\* trajectories on the host, no block on the accelerator.
TrajectoryList(max_list_size) ==
    [max_size |-> max_list_size, data_on_gpu |-> FALSE,
     cpu_list |-> [i \in 1..max_list_size |-> DefaultTrajectory],
     gpu_list |-> <<>>]

\* inline int get_size() const
get_size == max_size

\* inline bool on_gpu() const
on_gpu_mutant == gpu_list = <<>>
on_gpu == data_on_gpu

\* The bounds check of get_trajectory and set_trajectory.
ListIndexRejected(index) == index < 0 \/ index > max_size

\* cpu_list[index] names a slot of the vector (index 0-based).
ListSlotExists(index) == index >= 0 /\ index < Len(cpu_list)

\* inline Trajectory& get_trajectory(int index)
get_trajectory_mutant(index) ==
    /\ \/ /\ ListIndexRejected(index)
          /\ ret' = Raised("get_trajectory", [index |-> index], "Index out of bounds.")
       \/ /\ ~ListIndexRejected(index)
          /\ ListSlotExists(index)
          /\ ret' = Returned("get_trajectory", [index |-> index],
                             cpu_list[index + 1], FALSE)
       \/ /\ ~ListIndexRejected(index)
          /\ ~ListSlotExists(index)
          /\ \E g \in ListTrajectories :
                ret' = Returned("get_trajectory", [index |-> index], g, TRUE)
    /\ UNCHANGED <<stackVars, listVars, searchVars>>
get_trajectory(index) ==
    /\ \/ /\ ListIndexRejected(index)
          /\ ret' = Raised("get_trajectory", [index |-> index], "Index out of bounds.")
       \/ /\ ~ListIndexRejected(index)
          /\ data_on_gpu
          /\ ret' = Raised("get_trajectory", [index |-> index], "Data on GPU")
       \/ /\ ~ListIndexRejected(index)
          /\ ~data_on_gpu
          /\ ListSlotExists(index)
          /\ ret' = Returned("get_trajectory", [index |-> index],
                             cpu_list[index + 1], FALSE)
       \/ /\ ~ListIndexRejected(index)
          /\ ~data_on_gpu
          /\ ~ListSlotExists(index)
          /\ \E g \in ListTrajectories :
                ret' = Returned("get_trajectory", [index |-> index], g, TRUE)
    /\ UNCHANGED <<stackVars, listVars, searchVars>>

\* inline void set_trajectory(int index, const Trajectory& new_value)
\* A write to cpu_list[max_size] lands past the end of the vector's
\* storage: no slot of the list changes.
set_trajectory(index, new_value) ==
    LET args == [index |-> index, new_value |-> new_value] IN
    \/ /\ ListIndexRejected(index)
       /\ ret' = Raised("set_trajectory", args, "Index out of bounds.")
       /\ UNCHANGED <<stackVars, listVars, searchVars>>
    \/ /\ ~ListIndexRejected(index)
       /\ data_on_gpu
       /\ ret' = Raised("set_trajectory", args, "Data on GPU")
       /\ UNCHANGED <<stackVars, listVars, searchVars>>
    \/ /\ ~ListIndexRejected(index)
       /\ ~data_on_gpu
       /\ ListSlotExists(index)
       /\ cpu_list' = [cpu_list EXCEPT ![index + 1] = new_value]
       /\ ret' = Returned("set_trajectory", args, <<>>, FALSE)
       /\ UNCHANGED <<stackVars, searchVars, max_size, data_on_gpu, gpu_list>>
    \/ /\ ~ListIndexRejected(index)
       /\ ~data_on_gpu
       /\ ~ListSlotExists(index)
       /\ ret' = Returned("set_trajectory", args, <<>>, TRUE)
       /\ UNCHANGED <<stackVars, listVars, searchVars>>

\* inline std::vector<Trajectory>& get_list()
get_list ==
    /\ \/ /\ data_on_gpu
          /\ ret' = Raised("get_list", <<>>, "Data on GPU")
       \/ /\ ~data_on_gpu
          /\ ret' = Returned("get_list", <<>>, cpu_list, FALSE)
    /\ UNCHANGED <<stackVars, listVars, searchVars>>

\* void move_to_gpu(): nothing when the data is on the accelerator already;
\* otherwise a block is allocated, the host list copied into it and the
\* ownership flag set.  ret.value.copied: the call transferred the data.
move_to_gpu ==
    /\ \/ /\ data_on_gpu
          /\ UNCHANGED listVars
       \/ /\ ~data_on_gpu
          /\ gpu_list' = cpu_list
          /\ data_on_gpu' = TRUE
          /\ UNCHANGED <<max_size, cpu_list>>
    /\ ret' = Returned("move_to_gpu", <<>>, [copied |-> ~data_on_gpu], FALSE)
    /\ UNCHANGED <<stackVars, searchVars>>

\* void move_to_cpu(): nothing when the data is on the host already;
\* otherwise the block is copied back into the host list and freed, and the
\* ownership flag cleared.
move_to_cpu ==
    /\ \/ /\ ~data_on_gpu
          /\ UNCHANGED listVars
       \/ /\ data_on_gpu
          /\ cpu_list' = gpu_list
          /\ gpu_list' = <<>>
          /\ data_on_gpu' = FALSE
          /\ UNCHANGED max_size
    /\ ret' = Returned("move_to_cpu", <<>>, [copied |-> data_on_gpu], FALSE)
    /\ UNCHANGED <<stackVars, searchVars>>

\* A kernel running on the accelerator writes a trajectory of the block.
KernelWrite(index, new_value) ==
    /\ data_on_gpu
    /\ index \in 1..Len(gpu_list)
    /\ gpu_list' = [gpu_list EXCEPT ![index] = new_value]
    /\ ret' = Returned("kernel", [index |-> index, new_value |-> new_value],
                       <<>>, FALSE)
    /\ UNCHANGED <<stackVars, searchVars, max_size, data_on_gpu, cpu_list>>

\* The ImageStack of a specification that has none: an empty stack.
NoStack == images = ImageStack(<<>>)

InitList ==
    /\ \E n \in 0..MaxListSize :
          /\ max_size = TrajectoryList(n).max_size
          /\ data_on_gpu = TrajectoryList(n).data_on_gpu
          /\ cpu_list = TrajectoryList(n).cpu_list
          /\ gpu_list = TrajectoryList(n).gpu_list
          /\ ret = Returned("TrajectoryList", [max_list_size |-> n], <<>>, FALSE)
    /\ NoStack
    /\ NoSearch

NextList ==
    \/ \E index \in ListIndexValues : get_trajectory(index)
    \/ \E index \in ListIndexValues, v \in ListTrajectories :
          set_trajectory(index, v)
    \/ get_list
    \/ move_to_gpu
    \/ move_to_cpu
    \/ \E index \in 1..MaxListSize, v \in ListTrajectories :
          KernelWrite(index, v)

\* The TrajectoryList, its callers and the kernels that write its block.
SpecList == InitList /\ [][NextList]_vars

----------------------------------------------------------------------------
(* Claims about the TrajectoryList, checked under SpecList.                *)

\* C6: while the data is on the accelerator, get_trajectory, set_trajectory
\* and get_list fail with an error for every argument, and the failed call
\* leaves the host list, the size and the on_gpu flag unchanged.
C6_OnGpuAccessFails ==
    [][(/\ on_gpu
        /\ ret'.op \in {"get_trajectory", "set_trajectory", "get_list"})
       => (/\ ret'.status \in {"Index out of bounds.", "Data on GPU"}
           /\ ~ret'.oob
           /\ cpu_list' = cpu_list
           /\ get_size' = get_size
           /\ on_gpu' = on_gpu)]_vars

\* C6's case: set_trajectory was called with a valid index while the data
\* was on the accelerator, and failed.
C6_Witness ==
    /\ on_gpu
    /\ ret.op = "set_trajectory"
    /\ ret.args.index \in 0..(max_size - 1)
    /\ ret.status = "Data on GPU"

\* C7: get_trajectory(index) and set_trajectory(index, v) raise 'Index out
\* of bounds' for every index outside 0..max_size-1, index == max_size
\* included, and touch no slot beyond the capacity.
C7_ListIndexChecked ==
    (/\ ret.op \in {"get_trajectory", "set_trajectory"}
     /\ ret.args.index \notin 0..(max_size - 1))
    => (ret.status = "Index out of bounds." /\ ~ret.oob)

----------------------------------------------------------------------------
(* KBMOSearch (KBMOSearch.cpp): the grid search.                           *)
(*                                                                         *)
(* Floats are modelled by integers.  Velocities are whole pixels per unit  *)
(* of time and angles whole quarter turns, so that cos, sin and the        *)
(* predicted positions are exact; likelihood and flux are fixed-point      *)
(* numbers in hundredths.  The variance of a pixel is 0 or 1, so that Psi   *)
(* = science / variance and Phi = 1 / variance are integers.               *)

\* The sentinel of an invalid pixel.
NO_DATA == -9999

\* The number of results kept per start pixel: a small constant >= 1
\* (typically 8), here 2 so that the result lists stay small.
RESULTS_PER_PIXEL == 2

\* The science layers of the images of the searched stacks.
SciLayers == {<<2, 2>>, <<2, -1>>}

\* The shape (width, height) of the images of the searched stacks.
SearchDims == <<2, 1>>

\* The observation times of the images of a searched stack, in stack
\* order.
SearchTimes == {<<0, 1>>}

\* The (min, max) pairs set_start_bounds_x and set_start_bounds_y are
\* called with: the whole image, a part of it, reversed, and reaching
\* outside it.
XBounds == {<<0, 2>>, <<1, 2>>, <<2, 0>>, <<-1, 1>>}
YBounds == {<<0, 1>>, <<1, 0>>}

\* The grids search() is called with:
\* (ang_steps, vel_steps, min_ang, max_ang, min_vel, max_vel), angles in
\* quarter turns.
SearchGrids ==
    {[ang_steps |-> 2, vel_steps |-> 2, min_ang |-> 0, max_ang |-> 4,
      min_vel |-> 0, max_vel |-> 2],
     [ang_steps |-> 1, vel_steps |-> 1, min_ang |-> 0, max_ang |-> 4,
      min_vel |-> 1, max_vel |-> 2]}

\* The min_observations search() is called with.
MinObsValues == {0, 2}

RawImage(w, h, pixels) == [width |-> w, height |-> h, pixels |-> pixels]

\* The stacks that are searched: images of shape SearchDims, clear masks,
\* variance 1, science layers from SciLayers.
SearchStacks ==
    LET n == SearchDims[1] * SearchDims[2] IN
    UNION {{[i \in 1..Len(ts) |->
                LayeredImage(SearchDims[1], SearchDims[2], ts[i], sci[i],
                             [p \in 1..n |-> 1], [p \in 1..n |-> 0])] :
            sci \in [1..Len(ts) -> SciLayers]} :
           ts \in SearchTimes}

\* LayeredImage::generate_psi_image: science / variance where the mask is
\* clear and the variance positive, NO_DATA elsewhere.
generate_psi_image(img) ==
    RawImage(img.width, img.height,
        [p \in 1..(img.width * img.height) |->
            IF img.mask[p] = 0 /\ img.variance[p] > 0
            THEN img.science[p] \div img.variance[p]
            ELSE NO_DATA])

\* LayeredImage::generate_phi_image: 1 / variance where the mask is clear
\* and the variance positive, NO_DATA elsewhere.
generate_phi_image(img) ==
    RawImage(img.width, img.height,
        [p \in 1..(img.width * img.height) |->
            IF img.mask[p] = 0 /\ img.variance[p] > 0
            THEN 1 \div img.variance[p]
            ELSE NO_DATA])

\* KBMOSearch::KBMOSearch(imstack): the default parameters.  sgl_L, sgl_H
\* and sigmag_coeff are in hundredths.
DefaultParams(imgs) ==
    [min_observations |-> 0, min_lh |-> 0,
     do_sigmag_filter |-> FALSE, sgl_L |-> 25, sgl_H |-> 75,
     sigmag_coeff |-> -100,
     psi_num_bytes |-> -1, phi_num_bytes |-> -1,
     x_start_min |-> 0, x_start_max |-> get_width(imgs),
     y_start_min |-> 0, y_start_max |-> get_height(imgs),
     use_corr |-> FALSE, debug |-> FALSE]

\* void KBMOSearch::set_start_bounds_x(int x_min, int x_max)
set_start_bounds_x(x_min, x_max) ==
    /\ params' = [params EXCEPT !.x_start_min = x_min, !.x_start_max = x_max]
    /\ ret' = Returned("set_start_bounds_x", [x_min |-> x_min, x_max |-> x_max],
                       <<>>, FALSE)
    /\ UNCHANGED <<stackVars, listVars, have_cuda, psi_phi_generated,
                   psi_images, phi_images, search_list, results>>

\* void KBMOSearch::set_start_bounds_y(int y_min, int y_max)
set_start_bounds_y(y_min, y_max) ==
    /\ params' = [params EXCEPT !.y_start_min = y_min, !.y_start_max = y_max]
    /\ ret' = Returned("set_start_bounds_y", [y_min |-> y_min, y_max |-> y_max],
                       <<>>, FALSE)
    /\ UNCHANGED <<stackVars, listVars, have_cuda, psi_phi_generated,
                   psi_images, phi_images, search_list, results>>

\* preparePsiPhi(): the Psi and Phi images after the call, one per stack
\* image in stack order, built only when psi_phi_generated is false.
PreparedPsiMutant(imgs, generated, psi) ==
    [i \in 1..img_count(imgs) |-> generate_psi_image(imgs[i])]
PreparedPsi(imgs, generated, psi) ==
    IF generated THEN psi
    ELSE [i \in 1..img_count(imgs) |-> generate_psi_image(imgs[i])]
PreparedPhi(imgs, generated, phi) ==
    IF generated THEN phi
    ELSE [i \in 1..img_count(imgs) |-> generate_phi_image(imgs[i])]

\* cos and sin of an angle given in quarter turns.
CosQ(a) == CASE a % 4 = 0 -> 1 [] a % 4 = 2 -> -1 [] OTHER -> 0
SinQ(a) == CASE a % 4 = 1 -> 1 [] a % 4 = 3 -> -1 [] OTHER -> 0

\* createSearchList: angle_steps * velocity_steps trajectories, the one at
\* a * velocity_steps + v with velocity (cos(angles[a]) * velocities[v],
\* sin(angles[a]) * velocities[v]).  The step sizes of SearchGrids are
\* whole numbers.
createSearchList(g) ==
    LET ang_stepsize == (g.max_ang - g.min_ang) \div g.ang_steps
        vel_stepsize == (g.max_vel - g.min_vel) \div g.vel_steps
        angles == [i \in 0..(g.ang_steps - 1) |-> g.min_ang + i * ang_stepsize]
        velocities == [i \in 0..(g.vel_steps - 1) |-> g.min_vel + i * vel_stepsize]
    IN  [k \in 1..(g.ang_steps * g.vel_steps) |->
            LET a == (k - 1) \div g.vel_steps
                v == (k - 1) % g.vel_steps
            IN  Trajectory(0, 0, CosQ(angles[a]) * velocities[v],
                           SinQ(angles[a]) * velocities[v], 0, 0, 0)]

\* The assertions of fillPsiAndphi_vects: at least one image, as many Phi
\* as Psi images, all of one pixel count.
VectsWellFormed(psi, phi) ==
    /\ Len(psi) > 0
    /\ Len(phi) = Len(psi)
    /\ \A i \in 1..Len(psi) :
          /\ Len(psi[i].pixels) = Len(psi[1].pixels)
          /\ Len(phi[i].pixels) = Len(psi[1].pixels)

\* fillPsiAndphi_vects: the pixels of the images, image after image.
RECURSIVE FlatVect(_)
FlatVect(imgs) ==
    IF imgs = <<>> THEN <<>>
    ELSE FlatVect(SubSeq(imgs, 1, Len(imgs) - 1)) \o imgs[Len(imgs)].pixels

\* num_search_pixels and max_results of search().
NumSearchPixels(p) ==
    (p.x_start_max - p.x_start_min) * (p.y_start_max - p.y_start_min)
MaxResultsMutant(p) == NumSearchPixels(p)
MaxResults(p) == NumSearchPixels(p) * RESULTS_PER_PIXEL

----------------------------------------------------------------------------
(* The search kernel, deviceSearchFilter.  Its definition is not among the *)
(* sources; it is modelled from the specification of the search:           *)
(* trajectory evaluation, the filters and the top K per start pixel.       *)

RECURSIVE SumOver(_, _)
SumOver(f, S) ==
    IF S = {} THEN 0
    ELSE LET i == CHOOSE j \in S : TRUE IN f[i] + SumOver(f, S \ {i})

\* The integer square root of v, known to lie in lo..hi.
RECURSIVE ISqrt(_, _, _)
ISqrt(v, lo, hi) ==
    IF lo >= hi THEN lo
    ELSE LET mid == (lo + hi + 1) \div 2
         IN  IF mid * mid <= v THEN ISqrt(v, mid, hi) ELSE ISqrt(v, lo, mid - 1)

\* LH = psi_sum / sqrt(phi_sum) and flux = psi_sum / phi_sum, in
\* hundredths, for phi_sum > 0.
Likelihood(psi_sum, phi_sum) ==
    LET a == IF psi_sum < 0 THEN -psi_sum ELSE psi_sum
        r == ISqrt((10000 * a * a) \div phi_sum, 0, 100 * a)
    IN  IF psi_sum < 0 THEN -r ELSE r
Flux(psi_sum, phi_sum) == (100 * psi_sum) \div phi_sum

\* The predicted position on one axis at zeroed time t: round(x0 + v * t),
\* where velocities and times are whole numbers.
PredictedPixel(x0, v, t) == x0 + v * t

\* The value of image i (1-based) at pixel (x, y) in a flat buffer.
ReadVect(vect, w, h, i, x, y) == vect[(i - 1) * w * h + y * w + x + 1]

\* The evaluation of the trajectory from (x0, y0) with velocity (vx, vy):
\* the samples that are in the image with valid Psi and Phi > 0 are
\* summed.  A trajectory with phi_sum <= 0 is degraded to LH = 0.
EvaluateTrajectory(psi_vect, phi_vect, times, w, h, x0, y0, vx, vy) ==
    LET px == [i \in 1..Len(times) |-> PredictedPixel(x0, vx, times[i])]
        py == [i \in 1..Len(times) |-> PredictedPixel(y0, vy, times[i])]
        inImage(i) == px[i] \in 0..(w - 1) /\ py[i] \in 0..(h - 1)
        psi == [i \in 1..Len(times) |->
                   IF inImage(i) THEN ReadVect(psi_vect, w, h, i, px[i], py[i])
                   ELSE NO_DATA]
        phi == [i \in 1..Len(times) |->
                   IF inImage(i) THEN ReadVect(phi_vect, w, h, i, px[i], py[i])
                   ELSE NO_DATA]
        valid == {i \in 1..Len(times) :
                     psi[i] # NO_DATA /\ phi[i] # NO_DATA /\ phi[i] > 0}
        psi_sum == SumOver(psi, valid)
        phi_sum == SumOver(phi, valid)
    IN  [trj |-> Trajectory(x0, y0, vx, vy,
                     IF phi_sum > 0 THEN Likelihood(psi_sum, phi_sum) ELSE 0,
                     IF phi_sum > 0 THEN Flux(psi_sum, phi_sum) ELSE 0,
                     Cardinality(valid)),
         phi_sum |-> phi_sum]

\* The filters: a candidate is rejected if phi_sum <= 0, LH < min_lh or
\* obs_count < min_observations.  min_lh is in hundredths.
PassesFilters(c, p) ==
    /\ c.phi_sum > 0
    /\ c.trj.lh >= p.min_lh
    /\ c.trj.obs_count >= p.min_observations

\* The order of the candidates of one start pixel: LH descending, then
\* obs_count descending, then (vx, vy) ascending.
RanksBefore(a, b) ==
    \/ a.lh > b.lh
    \/ a.lh = b.lh /\ a.obs_count > b.obs_count
    \/ a.lh = b.lh /\ a.obs_count = b.obs_count /\ a.vx < b.vx
    \/ a.lh = b.lh /\ a.obs_count = b.obs_count /\ a.vx = b.vx /\ a.vy < b.vy

\* The candidates of start pixel (x, y), one per trajectory of the search
\* list.
Candidates(psi_vect, phi_vect, times, w, h, list, x, y) ==
    [k \in 1..Len(list) |->
        EvaluateTrajectory(psi_vect, phi_vect, times, w, h, x, y,
                           list[k].vx, list[k].vy)]

\* The slot of an unfilled result: no observation, LH below every
\* likelihood that passes the filters.
Placeholder(x, y) == Trajectory(x, y, 0, 0, -100, 0, 0)

\* The K best results of start pixel (x, y): the passing candidates in
\* rank order (equal candidates in list order), then placeholders.
BestOfPixel(psi_vect, phi_vect, times, w, h, p, list, x, y) ==
    LET cand == Evaluated(Candidates(psi_vect, phi_vect, times, w, h, list, x, y))
        pass == {k \in 1..Len(list) : PassesFilters(cand[k], p)}
        rank(k) == Cardinality({j \in pass :
                       \/ RanksBefore(cand[j].trj, cand[k].trj)
                       \/ /\ ~RanksBefore(cand[k].trj, cand[j].trj)
                          /\ j < k})
    IN  [r \in 1..RESULTS_PER_PIXEL |->
            IF \E k \in pass : rank(k) = r - 1
            THEN cand[CHOOSE k \in pass : rank(k) = r - 1].trj
            ELSE Placeholder(x, y)]

\* deviceSearchFilter: one thread per start pixel of the rectangle
\* [x_start_min, x_start_max) x [y_start_min, y_start_max); the thread of
\* the pixel at column c and row r of the rectangle writes its K best
\* results to the K slots from (r * search_width + c) * K.  A slot no
\* thread owns keeps the value it was allocated with.
deviceSearchFilter(psi_vect, phi_vect, times, w, h, p, list, best_results) ==
    LET search_width == p.x_start_max - p.x_start_min
        search_height == p.y_start_max - p.y_start_min
    IN  [s \in 1..Len(best_results) |->
            LET q == (s - 1) \div RESULTS_PER_PIXEL
                r == (s - 1) % RESULTS_PER_PIXEL
            IN  IF search_width > 0 /\ search_height > 0
                THEN BestOfPixel(psi_vect, phi_vect, times, w, h, p, list,
                         p.x_start_min + (q % search_width),
                         p.y_start_min + (q \div search_width))[r + 1]
                ELSE best_results[s]]

\* What enable_gpu_encoding selects for one of its arguments: 1 or 2
\* bytes, otherwise -1 (float, no encoding).
SelectedBytesMutant(num_bytes) ==
    IF num_bytes \in {1, 2, 4} THEN num_bytes ELSE -1
SelectedBytes(num_bytes) ==
    IF num_bytes = 1 \/ num_bytes = 2 THEN num_bytes ELSE -1

\* void KBMOSearch::enable_gpu_encoding(int psi_num_bytes, int phi_num_bytes)
enable_gpu_encoding(psi_num_bytes, phi_num_bytes) ==
    /\ params' = [params EXCEPT !.psi_num_bytes = SelectedBytes(psi_num_bytes),
                                !.phi_num_bytes = SelectedBytes(phi_num_bytes)]
    /\ ret' = Returned("enable_gpu_encoding",
                       [psi_num_bytes |-> psi_num_bytes,
                        phi_num_bytes |-> phi_num_bytes], <<>>, FALSE)
    /\ UNCHANGED <<stackVars, listVars, have_cuda, psi_phi_generated,
                   psi_images, phi_images, search_list, results>>

\* Pixel values are whole numbers; widths and scales are in millionths.
Million == 1000 * 1000

RECURSIVE MinOf(_)
MinOf(S) ==
    LET v == CHOOSE w \in S : TRUE
    IN  IF S = {v} THEN v
        ELSE LET m == MinOf(S \ {v}) IN IF v < m THEN v ELSE m
RECURSIVE MaxOf(_)
MaxOf(S) ==
    LET v == CHOOSE w \in S : TRUE
    IN  IF S = {v} THEN v
        ELSE LET m == MaxOf(S \ {v}) IN IF v > m THEN v ELSE m

\* RawImage::compute_bounds(): (min, max) over the pixels that are not
\* NO_DATA, (0, 0) if there is none.
compute_bounds(img) ==
    LET valid == Range(img.pixels) \ {NO_DATA}
    IN  IF valid = {} THEN <<0, 0>> ELSE <<MinOf(valid), MaxOf(valid)>>

\* The number of values of an encoding: (1 << (8 * encoding_bytes)) - 1.
NumValues(encoding_bytes) == IF encoding_bytes = 1 THEN 255 ELSE 65535

\* std::vector<scaleParameters> KBMOSearch::computeImageScaling(vect,
\* encoding_bytes): per image min_val, max_val and
\* scale = width / num_values, held as the pair (width, num_values) with
\* the width in millionths and at least 1e-6; scale 1.0 when
\* encoding_bytes is neither 1 nor 2.
computeImageScaling(vect, encoding_bytes) ==
    [i \in 1..Len(vect) |->
        LET bnds == compute_bounds(vect[i])
            w == (bnds[2] - bnds[1]) * Million
            width == IF w < 1 THEN 1 ELSE w
        IN  [min_val |-> bnds[1], max_val |-> bnds[2],
             scale |-> IF encoding_bytes = 1 \/ encoding_bytes = 2
                       THEN <<width, NumValues(encoding_bytes)>>
                       ELSE <<Million, 1>>]]

\* round(a / b) for b > 0.
RoundDiv(a, b) == (2 * a + b) \div (2 * b)

\* The encoding of the value v of an image with scale parameters sp:
\* NO_DATA becomes 0, any other value
\* clamp(round((v - min) / scale), 0, num_values).  Pixel values are whole
\* numbers, so a width of whole units divides exactly, and under a width
\* below one unit (the 1e-6 of an image of one value) every value other
\* than min is clamped.
Encoded(v, sp, num_values) ==
    IF v = NO_DATA THEN 0
    ELSE LET e == IF sp.scale[1] >= Million
                  THEN RoundDiv((v - sp.min_val) * sp.scale[2],
                                sp.scale[1] \div Million)
                  ELSE (v - sp.min_val) * (num_values + 1)
         IN  IF e < 0 THEN 0 ELSE IF e > num_values THEN num_values ELSE e

\* The decoding of e: 0 means NO_DATA, any other e is min + e * scale,
\* here to the nearest whole number.
Decoded(e, sp) ==
    IF e = 0 THEN NO_DATA
    ELSE sp.min_val + RoundDiv(e * (sp.scale[1] \div Million), sp.scale[2])

\* The flat buffer of the images vect as the kernel reads it: the pixels
\* themselves when num_bytes selects no encoding, otherwise each pixel
\* encoded and decoded with the scale parameters of its image.
KernelVect(vect, scale_vect, num_bytes) ==
    IF num_bytes > 0
    THEN FlatVect([i \in 1..Len(vect) |->
             [vect[i] EXCEPT !.pixels =
                 [p \in 1..Len(vect[i].pixels) |->
                     Decoded(Encoded(vect[i].pixels[p], scale_vect[i],
                                     NumValues(num_bytes)),
                             scale_vect[i])]]])
    ELSE FlatVect(vect)

\* The orders sortResults can leave the results in: the sort compares the
\* likelihoods only and is not stable, so elements of equal likelihood end
\* in any order.
sortResults(res) ==
    LET n == Len(res)
        perms == {f \in [1..n -> 1..n] :
                     /\ \A i, j \in 1..n : f[i] = f[j] => i = j
                     /\ \A i, j \in 1..n : i < j => res[f[i]].lh >= res[f[j]].lh}
    IN  {[i \in 1..n |-> res[f[i]]] : f \in perms}

\* void KBMOSearch::search(int ang_steps, int vel_steps, float min_ang,
\*     float max_ang, float min_vel, float max_vel, int min_observations)
\* The three outcomes: the allocation of a negative number of results
\* throws; a build without CUDA throws after the allocation; a build with
\* CUDA runs the kernel and sorts.  The scale parameters the call computed
\* are its value.
\* results = std::vector<trajectory>(max_results): max_results
\* value-initialised trajectories.
AllocatedResultsMutant(max_results) == <<>>
AllocatedResults(max_results) == [i \in 1..max_results |-> DefaultTrajectory]

search(g, min_observations) ==
    LET psi == PreparedPsi(images, psi_phi_generated, psi_images)
        phi == PreparedPhi(images, psi_phi_generated, phi_images)
        psi_scale_vect == IF params.psi_num_bytes > 0
                          THEN Evaluated(computeImageScaling(psi, params.psi_num_bytes))
                          ELSE <<>>
        phi_scale_vect == IF params.phi_num_bytes > 0
                          THEN Evaluated(computeImageScaling(phi, params.phi_num_bytes))
                          ELSE <<>>
        psi_vect == Evaluated(KernelVect(psi, psi_scale_vect, params.psi_num_bytes))
        phi_vect == Evaluated(KernelVect(phi, phi_scale_vect, params.phi_num_bytes))
        list == Evaluated(createSearchList(g))
        max_results == MaxResults(params)
        allocated == AllocatedResults(max_results)
        searched == [params EXCEPT !.min_observations = min_observations]
        args == [grid |-> g, min_observations |-> min_observations]
    IN  /\ VectsWellFormed(psi, phi)
        /\ psi_phi_generated' = TRUE
        /\ psi_images' = psi
        /\ phi_images' = phi
        /\ search_list' = list
        /\ \/ /\ max_results < 0
              /\ ret' = Raised("search", args, "length_error")
              /\ UNCHANGED <<params, results>>
           \/ /\ max_results >= 0
              /\ ~have_cuda
              /\ params' = searched
              /\ results' = allocated
              /\ ret' = Raised("search", args, "Non-GPU search is not implemented.")
           \/ /\ max_results >= 0
              /\ have_cuda
              /\ params' = searched
              /\ results' \in sortResults(Evaluated(
                     deviceSearchFilter(psi_vect, phi_vect, ZeroedTimes(images),
                         get_width(images), get_height(images), searched,
                         list, allocated)))
              /\ ret' = Returned("search", args,
                                 [psi_scale |-> psi_scale_vect,
                                  phi_scale |-> phi_scale_vect], FALSE)
        /\ UNCHANGED <<stackVars, listVars, have_cuda>>

\* KBMOSearch::KBMOSearch(ImageStack& imstack), in a build with or without
\* CUDA.
InitSearch ==
    /\ images \in SearchStacks
    /\ have_cuda \in BOOLEAN
    /\ params = DefaultParams(images)
    /\ psi_phi_generated = FALSE
    /\ psi_images = <<>>
    /\ phi_images = <<>>
    /\ search_list = <<>>
    /\ results = <<>>
    /\ ret = Returned("KBMOSearch", <<>>, <<>>, FALSE)
    /\ NoList

NextSearch ==
    \/ \E b \in XBounds : set_start_bounds_x(b[1], b[2])
    \/ \E b \in YBounds : set_start_bounds_y(b[1], b[2])
    \/ \E g \in SearchGrids, m \in MinObsValues : search(g, m)

SpecSearch == InitSearch /\ [][NextSearch]_vars

----------------------------------------------------------------------------
(* Properties of the search (SpecSearch).                                  *)

\* The last operation was a search() that returned normally.
Searched == ret.op = "search" /\ ret.status = "ok"

\* a comes strictly before b in the order of the results: likelihood
\* descending, then obs_count descending, then y, x, vx, vy ascending.
ComesBefore(a, b) ==
    \/ a.lh > b.lh
    \/ a.lh = b.lh /\ a.obs_count > b.obs_count
    \/ a.lh = b.lh /\ a.obs_count = b.obs_count /\ a.y < b.y
    \/ a.lh = b.lh /\ a.obs_count = b.obs_count /\ a.y = b.y /\ a.x < b.x
    \/ a.lh = b.lh /\ a.obs_count = b.obs_count /\ a.y = b.y /\ a.x = b.x
       /\ a.vx < b.vx
    \/ a.lh = b.lh /\ a.obs_count = b.obs_count /\ a.y = b.y /\ a.x = b.x
       /\ a.vx = b.vx /\ a.vy < b.vy

\* C9: after a search() that returned normally the results are totally
\* ordered: no result comes after one it precedes by likelihood
\* (descending) or, at equal likelihood, by the tie-break (obs_count
\* descending, then y, x, vx, vy ascending).
C9_ResultsTotallyOrdered ==
    Searched =>
        \A i, j \in 1..Len(results) :
            i < j => ~ComesBefore(results[j], results[i])

\* The part of C9 the comparator of sortResults provides: the likelihood
\* is non-increasing along the results.
ResultsSortedByLikelihood ==
    Searched =>
        \A i, j \in 1..Len(results) : i < j => results[i].lh >= results[j].lh

\* The start pixels of the search rectangle.
StartPixels ==
    {<<x, y>> : x \in params.x_start_min..(params.x_start_max - 1),
                y \in params.y_start_min..(params.y_start_max - 1)}

\* The candidates of start pixel px over the search list, evaluated on the
\* Psi and Phi images as the kernel reads them.
GridCandidates(px) ==
    Evaluated(Candidates(
        KernelVect(psi_images,
                   computeImageScaling(psi_images, params.psi_num_bytes),
                   params.psi_num_bytes),
        KernelVect(phi_images,
                   computeImageScaling(phi_images, params.phi_num_bytes),
                   params.phi_num_bytes),
        ZeroedTimes(images), get_width(images), get_height(images),
        search_list, px[1], px[2]))

\* The slots of the results that belong to start pixel px, and those of
\* them that hold a candidate.
SlotsOf(px) ==
    {i \in 1..Len(results) : results[i].x = px[1] /\ results[i].y = px[2]}
FilledSlotsOf(px) == {i \in SlotsOf(px) : results[i].obs_count > 0}

\* C10: after a search() that returned normally the results hold exactly
\* (x_max - x_min) * (y_max - y_min) * RESULTS_PER_PIXEL slots, at most
\* RESULTS_PER_PIXEL of them belong to any one start pixel, and the slots
\* of a start pixel that hold a candidate hold the passing candidates of
\* highest likelihood: as many as pass, up to RESULTS_PER_PIXEL, each one
\* a passing candidate that fewer than RESULTS_PER_PIXEL passing
\* candidates exceed in likelihood.
C10_TopKPerStartPixel ==
    Searched =>
        /\ Len(results) = (params.x_start_max - params.x_start_min)
                          * (params.y_start_max - params.y_start_min)
                          * RESULTS_PER_PIXEL
        /\ \A px \in StartPixels :
              LET cand == GridCandidates(px)
                  pass == {k \in 1..Len(cand) : PassesFilters(cand[k], params)}
              IN  /\ Cardinality(SlotsOf(px)) <= RESULTS_PER_PIXEL
                  /\ Cardinality(FilledSlotsOf(px)) =
                         IF Cardinality(pass) < RESULTS_PER_PIXEL
                         THEN Cardinality(pass) ELSE RESULTS_PER_PIXEL
                  /\ \A i \in FilledSlotsOf(px) :
                        /\ \E k \in pass : cand[k].trj = results[i]
                        /\ Cardinality({k \in pass :
                               cand[k].trj.lh > results[i].lh})
                               < RESULTS_PER_PIXEL

\* A search over two start pixels returned normally: at one of them more
\* than RESULTS_PER_PIXEL candidates pass the filters, at one fewer.
C10_Witness ==
    /\ Searched
    /\ Cardinality(StartPixels) = 2
    /\ \E px \in StartPixels :
          Cardinality({k \in 1..Len(search_list) :
              PassesFilters(GridCandidates(px)[k], params)}) > RESULTS_PER_PIXEL
    /\ \E px \in StartPixels :
          Cardinality({k \in 1..Len(search_list) :
              PassesFilters(GridCandidates(px)[k], params)}) < RESULTS_PER_PIXEL

\* C11: a search() called while psi_phi_generated is false ends with an
\* error and does not run: it builds no Psi/Phi images and leaves the
\* results alone.
C11_SearchBeforePrepareFails ==
    [][(ret'.op = "search" /\ ~psi_phi_generated) =>
          /\ ret'.status # "ok"
          /\ UNCHANGED <<psi_phi_generated, psi_images, phi_images, results>>]_vars

----------------------------------------------------------------------------
(* The Psi/Phi images of the searcher and the operations that prepare and  *)
(* read them.  The searcher works on the stack it was constructed with     *)
(* (KBMOSearch(ImageStack& imstack)), so a write through the reference     *)
(* that ImageStack::get_single_image returns is a write to the searched    *)
(* stack.                                                                  *)

\* The trajectories psi_curves and phi_curves are called with.
CurveTrajectories ==
    {Trajectory(0, 0, 1, 0, 0, 0, 0), Trajectory(1, 0, -1, 0, 0, 0, 0)}

\* void KBMOSearch::preparePsiPhi()
preparePsiPhi ==
    /\ psi_images' = PreparedPsi(images, psi_phi_generated, psi_images)
    /\ phi_images' = PreparedPhi(images, psi_phi_generated, phi_images)
    /\ psi_phi_generated' = TRUE
    /\ ret' = Returned("preparePsiPhi", <<>>, <<>>, FALSE)
    /\ UNCHANGED <<stackVars, listVars, have_cuda, params, search_list, results>>

\* stack.get_times(): the zeroed times of the images.
get_times(imgs) == ZeroedTimes(imgs)

\* RawImage::get_pixel(x, y): NO_DATA outside the image.
get_pixel(img, x, y) ==
    IF x \in 0..(img.width - 1) /\ y \in 0..(img.height - 1)
    THEN img.pixels[y * img.width + x + 1]
    ELSE NO_DATA

\* int(v + 0.5) for a whole number v: the conversion truncates toward
\* zero, so -1 + 0.5 becomes 0.
IntPlusHalf(v) == IF v >= 0 THEN v ELSE v + 1

\* std::vector<float> KBMOSearch::createCurves(trajectory t, imgs), without
\* barycentric correction: the pixel of each image at
\* (t.x + int(times[i] * t.x_vel + 0.5), t.y + int(times[i] * t.y_vel + 0.5)),
\* NO_DATA replaced by 0.
createCurves(t, imgs, times) ==
    [i \in 1..Len(imgs) |->
        LET pix_val == get_pixel(imgs[i], t.x + IntPlusHalf(times[i] * t.vx),
                                 t.y + IntPlusHalf(times[i] * t.vy))
        IN  IF pix_val = NO_DATA THEN 0 ELSE pix_val]

\* std::vector<float> KBMOSearch::psi_curves(trajectory& t)
psi_curves(t) ==
    /\ psi_images' = PreparedPsi(images, psi_phi_generated, psi_images)
    /\ phi_images' = PreparedPhi(images, psi_phi_generated, phi_images)
    /\ psi_phi_generated' = TRUE
    /\ ret' = Returned("psi_curves", [t |-> t],
                       Evaluated(createCurves(t, psi_images', get_times(images))),
                       FALSE)
    /\ UNCHANGED <<stackVars, listVars, have_cuda, params, search_list, results>>

\* std::vector<float> KBMOSearch::phi_curves(trajectory& t)
phi_curves(t) ==
    /\ psi_images' = PreparedPsi(images, psi_phi_generated, psi_images)
    /\ phi_images' = PreparedPhi(images, psi_phi_generated, phi_images)
    /\ psi_phi_generated' = TRUE
    /\ ret' = Returned("phi_curves", [t |-> t],
                       Evaluated(createCurves(t, phi_images', get_times(images))),
                       FALSE)
    /\ UNCHANGED <<stackVars, listVars, have_cuda, params, search_list, results>>

\* void KBMOSearch::save_psiphi(const std::string& path): preparePsiPhi(),
\* then save_images(path) writes one file per Psi and per Phi image; the
\* value is what was written.
save_psiphi ==
    /\ psi_images' = PreparedPsi(images, psi_phi_generated, psi_images)
    /\ phi_images' = PreparedPhi(images, psi_phi_generated, phi_images)
    /\ psi_phi_generated' = TRUE
    /\ ret' = Returned("save_psiphi", <<>>,
                       [psi |-> [i \in 1..img_count(images) |-> psi_images'[i]],
                        phi |-> [i \in 1..img_count(images) |-> phi_images'[i]]],
                       FALSE)
    /\ UNCHANGED <<stackVars, listVars, have_cuda, params, search_list, results>>

\* The caller replaces the science layer of image index of the stack
\* through the reference returned by get_single_image(index),
\* 0 <= index < img_count.
replace_science(index, sci) ==
    /\ index \in 0..(img_count(images) - 1)
    /\ images' = [images EXCEPT ![index + 1].science = sci]
    /\ ret' = Returned("replace_science", [index |-> index, sci |-> sci],
                       <<>>, FALSE)
    /\ UNCHANGED <<listVars, searchVars>>

NextPsiPhi ==
    \/ preparePsiPhi
    \/ \E t \in CurveTrajectories : psi_curves(t)
    \/ \E t \in CurveTrajectories : phi_curves(t)
    \/ save_psiphi
    \/ \E index \in 0..1, sci \in SciLayers : replace_science(index, sci)
    \/ \E g \in SearchGrids, m \in MinObsValues : search(g, m)

SpecPsiPhi == InitSearch /\ [][NextPsiPhi]_vars

\* The Psi and Phi images that the current stack generates.
FreshPsi == [i \in 1..img_count(images) |-> generate_psi_image(images[i])]
FreshPhi == [i \in 1..img_count(images) |-> generate_phi_image(images[i])]

\* The operations that call preparePsiPhi().
PreparingOps == {"preparePsiPhi", "search", "psi_curves", "phi_curves", "save_psiphi"}

\* C12: preparePsiPhi() is idempotent.  Whenever psi_phi_generated is true
\* there is one Psi and one Phi image per stack image; a first call,
\* direct or through search, psi_curves, phi_curves or save_psiphi, sets
\* the flag and builds the images from the stack in stack order; every
\* further call leaves images and flag unchanged.
C12_PrepareIdempotent ==
    /\ [](psi_phi_generated =>
             /\ Len(psi_images) = img_count(images)
             /\ Len(phi_images) = img_count(images))
    /\ [][ret'.op \in PreparingOps =>
             /\ psi_phi_generated'
             /\ psi_phi_generated =>
                   UNCHANGED <<psi_images, phi_images, psi_phi_generated>>
             /\ ~psi_phi_generated =>
                   psi_images' = FreshPsi /\ phi_images' = FreshPhi]_vars

\* preparePsiPhi() was called on a searcher whose images were generated
\* before the stack was changed, and left them as they were.
C12_Witness ==
    /\ ret.op = "preparePsiPhi"
    /\ psi_phi_generated
    /\ psi_images # FreshPsi

\* C13: the Psi/Phi images that a search(), psi_curves() or phi_curves()
\* has used are the ones the current stack generates.
C13_PsiPhiReflectStack ==
    ret.op \in {"search", "psi_curves", "phi_curves"} =>
        psi_images = FreshPsi /\ phi_images = FreshPhi

----------------------------------------------------------------------------
(* The encoding of the Psi/Phi values (SpecEncoding).                      *)

\* The byte counts enable_gpu_encoding is called with.
EncodingBytes == {-1, 0, 1, 2, 4}

NextEncoding ==
    \/ \E pb \in EncodingBytes, fb \in EncodingBytes : enable_gpu_encoding(pb, fb)
    \/ \E g \in SearchGrids, m \in MinObsValues : search(g, m)

SpecEncoding == InitSearch /\ [][NextEncoding]_vars

\* The results of the kernel on the Psi/Phi images as they are, without
\* encoding.
UnencodedResults ==
    Evaluated(deviceSearchFilter(FlatVect(psi_images), FlatVect(phi_images),
        ZeroedTimes(images), get_width(images), get_height(images), params,
        search_list, [i \in 1..Len(results) |-> DefaultTrajectory]))

\* The scale parameters a search computes for encoding the images vect
\* with num_bytes bytes: none when num_bytes selects float, otherwise one
\* set per image with the scale of num_bytes bytes.
ScaleAsSelected(scale_vect, vect, num_bytes) ==
    IF num_bytes \in {1, 2}
    THEN /\ Len(scale_vect) = Len(vect)
         /\ \A i \in 1..Len(vect) :
               /\ scale_vect[i].scale[2] = 2 ^ (8 * num_bytes) - 1
               /\ scale_vect[i].scale[1] >= 1
    ELSE scale_vect = <<>>

\* C14: enable_gpu_encoding(b) selects b bytes when b is 1 or 2 and float
\* for every other b, for Psi and for Phi, whatever was selected before and
\* without touching any other parameter; a search then computes scale
\* parameters exactly for the images with a 1- or 2-byte encoding, and
\* with float for both its results are those of the unencoded images.
C14_EncodingSelection ==
    /\ [][ret'.op = "enable_gpu_encoding" =>
             /\ params'.psi_num_bytes =
                   IF ret'.args.psi_num_bytes \in {1, 2}
                   THEN ret'.args.psi_num_bytes ELSE -1
             /\ params'.phi_num_bytes =
                   IF ret'.args.phi_num_bytes \in {1, 2}
                   THEN ret'.args.phi_num_bytes ELSE -1
             /\ params' = [params EXCEPT
                              !.psi_num_bytes = params'.psi_num_bytes,
                              !.phi_num_bytes = params'.phi_num_bytes]]_vars
    /\ [](Searched =>
             /\ ScaleAsSelected(ret.value.psi_scale, psi_images,
                                params.psi_num_bytes)
             /\ ScaleAsSelected(ret.value.phi_scale, phi_images,
                                params.phi_num_bytes)
             /\ (params.psi_num_bytes = -1 /\ params.phi_num_bytes = -1) =>
                   results \in sortResults(UnencodedResults))

\* A search ran with Psi encoded in 2 bytes and Phi as float.
C14_Witness ==
    /\ Searched
    /\ params.psi_num_bytes = 2
    /\ params.phi_num_bytes = -1
    /\ Len(ret.value.psi_scale) = img_count(images)
    /\ ret.value.phi_scale = <<>>
    /\ Len(results) > 0

----------------------------------------------------------------------------
(* Start bounds and builds without CUDA (SpecSearch).                      *)

\* The start bounds of p reach outside a w x h image or are reversed.
BoundsInvalid(p, w, h) ==
    \/ p.x_start_min < 0
    \/ p.x_start_max > w
    \/ p.y_start_min < 0
    \/ p.y_start_max > h
    \/ p.x_start_max < p.x_start_min
    \/ p.y_start_max < p.y_start_min

\* C15: start bounds outside the image or reversed are reported as an
\* error at the latest by search(), which then allocates no result buffer:
\* a search() called under such bounds does not return normally and
\* leaves the results alone.
C15_InvalidBoundsRejected ==
    [][(ret'.op = "search"
        /\ BoundsInvalid(params, get_width(images), get_height(images))) =>
          /\ ret'.status # "ok"
          /\ results' = results]_vars

\* C16: in a build without CUDA every search() ends with the
\* 'not implemented' error.
C16_NoCudaNotImplemented ==
    (~have_cuda /\ ret.op = "search") =>
        ret.status = "Non-GPU search is not implemented."

\* The part of C16 that holds: without CUDA no search() returns normally.
NoCudaSearchNeverReturns ==
    (~have_cuda /\ ret.op = "search") => ret.status # "ok"

----------------------------------------------------------------------------
(* StampCreator (stamp_creator.cpp): stamps along a trajectory and their   *)
(* coadds.  The operations are static and change nothing but what they    *)
(* return.  Pixel values are whole numbers.                                *)

\* The largest stamp edge of the accelerator coadds, scaled down so that
\* a stamp beyond it stays small.
MAX_STAMP_EDGE == 3

\* LayeredImage::get_science(): the science layer as a RawImage.
get_science(img) == RawImage(img.width, img.height, img.science)

\* RawImage(1, 1, NO_DATA): what replaces a rejected coadd.
NoDataStamp == RawImage(1, 1, <<NO_DATA>>)

\* Trajectory::get_x_pos(time), get_y_pos(time): the predicted pixel.
get_x_pos(trj, time) == PredictedPixel(trj.x, trj.vx, time)
get_y_pos(trj, time) == PredictedPixel(trj.y, trj.vy, time)

\* RawImage::create_stamp(pos, radius, keep_no_data): the square of edge
\* 2 * radius + 1 around pos; pixels outside the image are NO_DATA, and
\* NO_DATA becomes 0 unless keep_no_data.
create_stamp(img, cx, cy, radius, keep_no_data) ==
    LET edge == 2 * radius + 1
    IN  RawImage(edge, edge,
            [p \in 1..(edge * edge) |->
                LET v == get_pixel(img, cx - radius + ((p - 1) % edge),
                                   cy - radius + ((p - 1) \div edge))
                IN  IF v = NO_DATA /\ ~keep_no_data THEN 0 ELSE v])

\* The images a use_index vector selects: all of them when it is empty,
\* otherwise the images i with use_index[i], in image order.
RECURSIVE SelectedImages(_, _)
SelectedImages(n, use_index) ==
    IF n = 0 THEN <<>>
    ELSE IF use_index = <<>> \/ use_index[n]
         THEN Append(SelectedImages(n - 1, use_index), n)
         ELSE SelectedImages(n - 1, use_index)

\* The check of create_stamps on use_index.
UseIndexRejected(imgs, use_index) ==
    Len(use_index) > 0 /\ Len(use_index) # img_count(imgs)

\* std::vector<RawImage> StampCreator::create_stamps(stack, trj, radius,
\* keep_no_data, use_index), for a use_index that passes the check: one
\* stamp per selected image, centred on the position of the trajectory at
\* the zeroed time of the image.
CreateStamps(imgs, trj, radius, keep_no_data, use_index) ==
    LET sel == SelectedImages(img_count(imgs), use_index)
    IN  Evaluated([k \in 1..Len(sel) |->
            LET time == ZeroedTime(imgs, sel[k] - 1, 0)
            IN  create_stamp(get_science(imgs[sel[k]]),
                             get_x_pos(trj, time), get_y_pos(trj, time),
                             radius, keep_no_data)])

\* The values of pixel p of the stamps that are not NO_DATA, in stamp
\* order.
RECURSIVE ValidValues(_, _)
ValidValues(stamps, p) ==
    IF stamps = <<>> THEN <<>>
    ELSE LET rest == ValidValues(SubSeq(stamps, 1, Len(stamps) - 1), p)
             v == stamps[Len(stamps)].pixels[p]
         IN  IF v = NO_DATA THEN rest ELSE Append(rest, v)

RECURSIVE SumSeq(_)
SumSeq(vals) ==
    IF vals = <<>> THEN 0
    ELSE vals[Len(vals)] + SumSeq(SubSeq(vals, 1, Len(vals) - 1))

\* The median of a non-empty sequence of values: the middle one in
\* ascending order, the mean of the two middle ones for an even count.
MedianOf(vals) ==
    LET n == Len(vals)
        below(i) == Cardinality({j \in 1..n :
                        vals[j] < vals[i] \/ (vals[j] = vals[i] /\ j < i)})
        nth(k) == vals[CHOOSE i \in 1..n : below(i) = k - 1]
    IN  IF n % 2 = 1 THEN nth((n + 1) \div 2)
        ELSE (nth(n \div 2) + nth(n \div 2 + 1)) \div 2

\* create_summed_image, create_mean_image, create_median_image: pixel by
\* pixel over stamps of one shape.  The sum counts NO_DATA as 0, mean and
\* median skip it and are 0 where no stamp has a value.
CoaddShape(stamps) == IF stamps = <<>> THEN 0 ELSE stamps[1].width
create_summed_image(stamps) ==
    RawImage(CoaddShape(stamps), CoaddShape(stamps),
        [p \in 1..(CoaddShape(stamps) * CoaddShape(stamps)) |->
            SumSeq(ValidValues(stamps, p))])
create_mean_image(stamps) ==
    RawImage(CoaddShape(stamps), CoaddShape(stamps),
        [p \in 1..(CoaddShape(stamps) * CoaddShape(stamps)) |->
            LET vals == ValidValues(stamps, p)
            IN  IF vals = <<>> THEN 0 ELSE SumSeq(vals) \div Len(vals)])
create_median_image(stamps) ==
    RawImage(CoaddShape(stamps), CoaddShape(stamps),
        [p \in 1..(CoaddShape(stamps) * CoaddShape(stamps)) |->
            LET vals == ValidValues(stamps, p)
            IN  IF vals = <<>> THEN 0 ELSE MedianOf(vals)])

StampParameters(radius, stamp_type, do_filtering, peak_offset_x, peak_offset_y, center_thresh, m_limit) ==
    [radius |-> radius, stamp_type |-> stamp_type,
     do_filtering |-> do_filtering,
     peak_offset_x |-> peak_offset_x, peak_offset_y |-> peak_offset_y,
     center_thresh |-> center_thresh,
     m01_limit |-> m_limit, m02_limit |-> m_limit, m10_limit |-> m_limit,
     m11_limit |-> m_limit, m20_limit |-> m_limit]

Abs(v) == IF v < 0 THEN -v ELSE v

\* RawImage::find_peak(furthest_from_center): the position of the largest
\* pixel that is not NO_DATA; among several, with furthest_from_center,
\* the one farthest from the centre of the image, then the first in row
\* order.  (0, 0) for an image without values.
find_peak(img, furthest_from_center) ==
    LET n == img.width * img.height
        finite == {p \in 1..n : img.pixels[p] # NO_DATA}
        X(p) == (p - 1) % img.width
        Y(p) == (p - 1) \div img.width
        dist(p) == (2 * X(p) - (img.width - 1)) * (2 * X(p) - (img.width - 1))
                   + (2 * Y(p) - (img.height - 1)) * (2 * Y(p) - (img.height - 1))
        peaks == {p \in finite : \A q \in finite : img.pixels[q] <= img.pixels[p]}
        far == IF furthest_from_center
               THEN {p \in peaks : \A q \in peaks : dist(q) <= dist(p)}
               ELSE peaks
        best == CHOOSE p \in far : \A q \in far : p <= q
    IN  IF finite = {} THEN [x |-> 0, y |-> 0]
        ELSE [x |-> X(best), y |-> Y(best)]

\* RawImage::find_central_moments(): the moments about the centre of the
\* image (of odd edge), NO_DATA counted as 0.
find_central_moments(img) ==
    LET n == img.width * img.height
        val == [p \in 1..n |-> IF img.pixels[p] = NO_DATA THEN 0 ELSE img.pixels[p]]
        dx == [p \in 1..n |-> ((p - 1) % img.width) - ((img.width - 1) \div 2)]
        dy == [p \in 1..n |-> ((p - 1) \div img.width) - ((img.height - 1) \div 2)]
    IN  [m00 |-> SumOver(val, 1..n),
         m01 |-> SumOver([p \in 1..n |-> dy[p] * val[p]], 1..n),
         m10 |-> SumOver([p \in 1..n |-> dx[p] * val[p]], 1..n),
         m11 |-> SumOver([p \in 1..n |-> dx[p] * dy[p] * val[p]], 1..n),
         m02 |-> SumOver([p \in 1..n |-> dy[p] * dy[p] * val[p]], 1..n),
         m20 |-> SumOver([p \in 1..n |-> dx[p] * dx[p] * val[p]], 1..n)]

\* The peak-position test of filter_stamp.
PeakRejected(pos, sp) ==
    \/ Abs(pos.x - sp.radius) >= sp.peak_offset_x
    \/ Abs(pos.y - sp.radius) >= sp.peak_offset_y

\* center_val / pixel_sum < center_thresh in float arithmetic, with
\* center_thresh in hundredths: a quotient by 0 is an infinity of the sign
\* of center_val, or not a number, which is below nothing.
RatioBelow(center_val, pixel_sum, center_thresh) ==
    CASE pixel_sum > 0 -> 100 * center_val < center_thresh * pixel_sum
      [] pixel_sum < 0 -> 100 * center_val > center_thresh * pixel_sum
      [] OTHER -> center_val < 0

\* The test of filter_stamp on the share of the peak pixel in the sum of
\* the stamp_ppi pixels of the stamp.
CenterRejected(img, pos, sp) ==
    LET stamp_width == 2 * sp.radius + 1
        stamp_ppi == stamp_width * stamp_width
        center_val == img.pixels[pos.y * stamp_width + pos.x + 1]
        pixel_sum == SumOver(img.pixels, 1..stamp_ppi)
    IN  sp.center_thresh > 0
        /\ RatioBelow(center_val, pixel_sum, sp.center_thresh)

\* The test of filter_stamp on the image moments.
MomentsRejected(img, sp) ==
    LET moments == find_central_moments(img)
    IN  \/ Abs(moments.m01) >= sp.m01_limit
        \/ Abs(moments.m10) >= sp.m10_limit
        \/ Abs(moments.m11) >= sp.m11_limit
        \/ moments.m02 >= sp.m02_limit
        \/ moments.m20 >= sp.m20_limit

\* The return statement at which filter_stamp(img, sp) ends: that of
\* the peak position, of the central flux or of the moments, each
\* returning true, or the final one, returning false.
FilterRule(img, sp) ==
    LET pos == find_peak(img, TRUE)
    IN  IF PeakRejected(pos, sp) THEN "peak"
        ELSE IF CenterRejected(img, pos, sp) THEN "center"
        ELSE IF MomentsRejected(img, sp) THEN "moments"
        ELSE "none"

\* bool StampCreator::filter_stamp(const RawImage& img, sp)
FilterStamp(img, sp) == FilterRule(img, sp) # "none"

\* The coadd of stamps that the stamp type selects.
Coadd(stamps, stamp_type) ==
    CASE stamp_type = "STAMP_MEDIAN" -> create_median_image(stamps)
      [] stamp_type = "STAMP_MEAN" -> create_mean_image(stamps)
      [] stamp_type = "STAMP_SUM" -> create_summed_image(stamps)

\* What get_coadded_stamps stores for a coadd: a 1 x 1 NO_DATA image if
\* filtering is on and filter_stamp rejects it, otherwise the coadd.
FilteredCoaddMutant(coadd, sp) ==
    IF FilterStamp(coadd, sp) THEN NoDataStamp ELSE coadd
FilteredCoadd(coadd, sp) ==
    IF sp.do_filtering /\ FilterStamp(coadd, sp)
    THEN NoDataStamp ELSE coadd

\* The radius check of get_coadded_stamps_gpu.
RadiusRejected(sp) ==
    2 * sp.radius + 1 > MAX_STAMP_EDGE \/ sp.radius <= 0

\* ---------------------------------------------------------------------
\* StampCreator: the static operations bound to Python, called on the
\* image stack.  The stacks are small, with science values whose means
\* and medians are whole numbers.
\* ---------------------------------------------------------------------
StampDims == <<3, 1>>
StampSciLayers == {<<0, 4, 0>>, <<2, 0, NO_DATA>>}
StampStacks ==
    LET n == StampDims[1] * StampDims[2] IN
    {[i \in 1..2 |->
         LayeredImage(StampDims[1], StampDims[2], i - 1, sci[i],
                      [p \in 1..n |-> 1], [p \in 1..n |-> 0])] :
     sci \in [1..2 -> StampSciLayers]}

StampTrajectories ==
    {Trajectory(1, 0, 0, 0, 0, 0, 0), Trajectory(0, 0, 1, 0, 0, 0, 0),
     Trajectory(2, 0, 0, 0, 0, 0, 0)}
TrajectoryArrays ==
    {<<>>, <<Trajectory(1, 0, 0, 0, 0, 0, 0)>>,
     <<Trajectory(0, 0, 1, 0, 0, 0, 0), Trajectory(2, 0, 0, 0, 0, 0, 0)>>}

StampRadii == {0, 1, 2}
StampTypes == {"STAMP_SUM", "STAMP_MEAN", "STAMP_MEDIAN"}
\* use_index vectors: empty, one entry per image, one entry too few.
UseIndexValues == {<<>>, <<FALSE, TRUE>>, <<TRUE>>}
UseIndexVects ==
    {<<>>, <<(<<>>)>>, <<(<<FALSE, TRUE>>)>>, <<(<<TRUE>>)>>,
     <<(<<>>), (<<>>)>>, <<(<<>>), (<<FALSE, TRUE>>)>>,
     <<(<<FALSE, TRUE>>), (<<>>)>>, <<(<<FALSE, TRUE>>), (<<FALSE, TRUE>>)>>}
StampParamValues ==
    {StampParameters(r, ty, f, off, off, ct, m) :
        r \in StampRadii, ty \in StampTypes, f \in BOOLEAN,
        off \in {1, 2}, ct \in {0, 60}, m \in {4, 1000}}

StampIdle == Returned("StampCreator", <<>>, <<>>, FALSE)

InitStamps ==
    /\ images \in StampStacks
    /\ ret = StampIdle
    /\ NoList
    /\ have_cuda \in BOOLEAN
    /\ params = <<>>
    /\ psi_phi_generated = FALSE
    /\ psi_images = <<>>
    /\ phi_images = <<>>
    /\ search_list = <<>>
    /\ results = <<>>

StampUnchanged ==
    UNCHANGED <<images, listVars, searchVars>>

\* std::vector<RawImage> StampCreator::create_stamps(stack, trj, radius,
\* keep_no_data, use_index)
create_stamps(trj, radius, keep_no_data, use_index) ==
    LET args == <<trj, radius, keep_no_data, use_index>>
    IN  /\ ret' = IF UseIndexRejected(images, use_index)
                  THEN Raised("create_stamps", args,
                              "Wrong size use_index passed into create_stamps()")
                  ELSE Returned("create_stamps", args,
                                CreateStamps(images, trj, radius, keep_no_data,
                                             use_index), FALSE)
        /\ StampUnchanged

\* get_median_stamp, get_mean_stamp, get_summed_stamp: the coadd of the
\* stamps of create_stamps, whose exception they let through.  keep_no_data
\* is true for median and mean, false for the sum.
StampOf(op, trj, radius, use_index, keep_no_data, stamp_type) ==
    LET args == <<trj, radius, use_index>>
    IN  IF UseIndexRejected(images, use_index)
        THEN Raised(op, args, "Wrong size use_index passed into create_stamps()")
        ELSE Returned(op, args,
                      Coadd(CreateStamps(images, trj, radius, keep_no_data,
                                         use_index), stamp_type), FALSE)

get_median_stamp(trj, radius, use_index) ==
    /\ ret' = StampOf("get_median_stamp", trj, radius, use_index, TRUE,
                      "STAMP_MEDIAN")
    /\ StampUnchanged

get_mean_stamp(trj, radius, use_index) ==
    /\ ret' = StampOf("get_mean_stamp", trj, radius, use_index, TRUE,
                      "STAMP_MEAN")
    /\ StampUnchanged

get_summed_stamp(trj, radius, use_index) ==
    /\ ret' = StampOf("get_summed_stamp", trj, radius, use_index, FALSE,
                      "STAMP_SUM")
    /\ StampUnchanged

\* The result vector of get_coadded_stamps for the use_index vectors
\* `used` that the loop read: per trajectory the coadd of its stamps
\* (created with keep_no_data), filtered.
CoaddOfMutant(imgs, trj, sp, use_index) ==
    Coadd(CreateStamps(imgs, trj, sp.radius, FALSE, use_index), sp.stamp_type)
CoaddOf(imgs, trj, sp, use_index) ==
    Coadd(CreateStamps(imgs, trj, sp.radius, TRUE, use_index), sp.stamp_type)

CoaddResults(imgs, t_array, used, sp) ==
    Evaluated([i \in 1..Len(t_array) |->
        FilteredCoadd(CoaddOf(imgs, t_array[i], sp, used[i]), sp)])

\* StampCreator::get_coadded_stamps_cpu: no check of the radius and none
\* of the size of use_index_vect, whose entry i is read for every
\* trajectory i; create_stamps throws at the first entry of a wrong size.
get_coadded_stamps_cpu(args, t_array, used, sp, oob) ==
    IF \E i \in 1..Len(t_array) : UseIndexRejected(images, used[i])
    THEN Raised("get_coadded_stamps", args,
                "Wrong size use_index passed into create_stamps()")
    ELSE Returned("get_coadded_stamps", args,
                  [stamps |-> CoaddResults(images, t_array, used, sp),
                   used |-> used], oob)

\* deviceGetCoadds: the coadds of the accelerator are those of the host;
\* mismatched vector sizes are an invalid argument.
deviceGetCoadds(imgs, t_array, sp, use_index_vect) ==
    Evaluated([i \in 1..Len(t_array) |->
        CoaddOf(imgs, t_array[i], sp, use_index_vect[i])])

\* StampCreator::get_coadded_stamps_gpu, in a build with HAVE_CUDA.
get_coadded_stamps_gpu(args, t_array, use_index_vect, sp) ==
    IF RadiusRejected(sp)
    THEN Raised("get_coadded_stamps", args, "Invalid Radius.")
    ELSE IF \/ Len(use_index_vect) # Len(t_array)
            \/ \E i \in 1..Len(t_array) :
                   UseIndexRejected(images, use_index_vect[i])
    THEN Raised("get_coadded_stamps", args, "invalid argument")
    ELSE LET stamp_data == deviceGetCoadds(images, t_array, sp, use_index_vect)
         IN  Returned("get_coadded_stamps", args,
                 [stamps |-> Evaluated([t \in 1..Len(t_array) |->
                                 FilteredCoadd(stamp_data[t], sp)]),
                  used |-> use_index_vect], FALSE)

\* std::vector<RawImage> StampCreator::get_coadded_stamps(stack, t_array,
\* use_index_vect, params, use_gpu).  Without HAVE_CUDA use_gpu only logs a
\* warning.  An entry of use_index_vect read past its end is any vector.
get_coadded_stamps(t_array, use_index_vect, sp, use_gpu) ==
    LET args == <<t_array, use_index_vect, sp, use_gpu>>
        missing == {i \in 1..Len(t_array) : i > Len(use_index_vect)}
    IN  /\ StampUnchanged
        /\ IF use_gpu /\ have_cuda
           THEN ret' = get_coadded_stamps_gpu(args, t_array, use_index_vect, sp)
           ELSE \E g \in [missing -> UseIndexValues] :
                  ret' = get_coadded_stamps_cpu(args, t_array,
                            [i \in 1..Len(t_array) |->
                                IF i \in missing THEN g[i]
                                ELSE use_index_vect[i]],
                            sp, missing # {})

\* The stamps handed to filter_stamp: cutouts of the first image.
FilterImages ==
    {create_stamp(get_science(images[1]), x, 0, r, TRUE) :
        x \in 0..(StampDims[1] - 1), r \in StampRadii}

\* bool StampCreator::filter_stamp(const RawImage& img, params), for a
\* stamp of the edge that params.radius gives.
filter_stamp(img, sp) ==
    /\ img.width = 2 * sp.radius + 1
    /\ ret' = Returned("filter_stamp", <<img, sp>>,
                       [rejected |-> FilterStamp(img, sp),
                        rule |-> FilterRule(img, sp)], FALSE)
    /\ StampUnchanged

\* The caller takes the result; the next call starts from there.
stamp_result_taken ==
    /\ ret' = StampIdle
    /\ StampUnchanged

StampCall ==
    \/ \E trj \in StampTrajectories, radius \in StampRadii, k \in BOOLEAN,
          use_index \in UseIndexValues :
            create_stamps(trj, radius, k, use_index)
    \/ \E trj \in StampTrajectories, radius \in StampRadii,
          use_index \in UseIndexValues :
            get_median_stamp(trj, radius, use_index)
    \/ \E trj \in StampTrajectories, radius \in StampRadii,
          use_index \in UseIndexValues :
            get_mean_stamp(trj, radius, use_index)
    \/ \E trj \in StampTrajectories, radius \in StampRadii,
          use_index \in UseIndexValues :
            get_summed_stamp(trj, radius, use_index)
    \/ \E t_array \in TrajectoryArrays, use_index_vect \in UseIndexVects,
          sp \in StampParamValues, use_gpu \in BOOLEAN :
            get_coadded_stamps(t_array, use_index_vect, sp, use_gpu)
    \/ \E img \in FilterImages, sp \in StampParamValues :
            filter_stamp(img, sp)

NextStamps ==
    \/ ret = StampIdle /\ StampCall
    \/ ret # StampIdle /\ stamp_result_taken

SpecStamps == InitStamps /\ [][NextStamps]_vars

\* The offset of the find_peak(true) pixel of a stamp from the centre
\* (radius, radius), along x and along y.
PeakOffset(img, sp) ==
    LET pos == find_peak(img, TRUE)
    IN  [x |-> Abs(pos.x - sp.radius), y |-> Abs(pos.y - sp.radius)]

\* C17: the peak-position rule of filter_stamp rejects a stamp exactly
\* when the offset of its peak from the centre exceeds peak_offset_x in x
\* or peak_offset_y in y; an offset equal to the limit is not rejected by
\* this rule.
C17_PeakRuleOnlyBeyondLimit ==
    ret.op = "filter_stamp" =>
        LET off == PeakOffset(ret.args[1], ret.args[2])
        IN  (ret.value.rule = "peak") <=>
                (\/ off.x > ret.args[2].peak_offset_x
                 \/ off.y > ret.args[2].peak_offset_y)

\* What the code does instead: the rule rejects from the limit on.
PeakRuleFromLimitOn ==
    ret.op = "filter_stamp" =>
        LET off == PeakOffset(ret.args[1], ret.args[2])
        IN  (ret.value.rule = "peak") <=>
                (\/ off.x >= ret.args[2].peak_offset_x
                 \/ off.y >= ret.args[2].peak_offset_y)

\* A call of get_coadded_stamps that returned its vector of stamps.
Coadded == ret.op = "get_coadded_stamps" /\ ret.status = "ok"

\* C18: get_coadded_stamps returns one stamp per trajectory, in input
\* order; with do_filtering, stamp i is the 1 x 1 NO_DATA image if and
\* only if filter_stamp rejects the coadd of trajectory i, and is that
\* coadd otherwise; without do_filtering every stamp is the coadd.
C18_OneStampPerTrajectory ==
    Coadded =>
        LET t_array == ret.args[1]
            sp == ret.args[3]
            stamps == ret.value.stamps
        IN  /\ Len(stamps) = Len(t_array)
            /\ \A i \in 1..Len(t_array) :
                 LET coadd == CoaddOf(images, t_array[i], sp, ret.value.used[i])
                 IN  /\ (stamps[i] = NoDataStamp) <=>
                            (sp.do_filtering /\ FilterStamp(coadd, sp))
                     /\ stamps[i] # NoDataStamp => stamps[i] = coadd

\* Filtering is on, one coadd is rejected and replaced, another is kept.
C18_Witness ==
    /\ Coadded
    /\ ret.args[3].do_filtering
    /\ \E i, j \in 1..Len(ret.args[1]) :
         /\ ret.value.stamps[i] = NoDataStamp
         /\ ret.value.stamps[j] # NoDataStamp
         /\ ret.value.stamps[j].width = 2 * ret.args[3].radius + 1

\* The images that a use_index of the right size selects, and the k-th of
\* them in image order.
UsedImages(imgs, use_index) ==
    {i \in 1..img_count(imgs) : use_index = <<>> \/ use_index[i]}
NthUsed(imgs, use_index, k) ==
    CHOOSE i \in UsedImages(imgs, use_index) :
        Cardinality({j \in UsedImages(imgs, use_index) : j < i}) = k - 1

\* The use_index argument of a call of create_stamps or of a stamp
\* function built on it.
StampOps == {"get_median_stamp", "get_mean_stamp", "get_summed_stamp"}
UseIndexArg == IF ret.op = "create_stamps" THEN ret.args[4] ELSE ret.args[3]

\* create_stamps and the stamp functions built on it raise an error for a
\* non-empty use_index whose length is not the image count.
CreateStampsChecksUseIndex ==
    ret.op \in StampOps \cup {"create_stamps"} =>
        (UseIndexRejected(images, UseIndexArg) <=> ret.status # "ok")

\* create_stamps returns one stamp for each selected image, in image
\* order: all images for an empty use_index, else those with a true entry.
CreateStampsUsesSelected ==
    (ret.op = "create_stamps" /\ ret.status = "ok") =>
        LET trj == ret.args[1]
            use_index == ret.args[4]
        IN  /\ Len(ret.value) = Cardinality(UsedImages(images, use_index))
            /\ \A k \in 1..Len(ret.value) :
                 LET i == NthUsed(images, use_index, k)
                     time == images[i].obstime - images[1].obstime
                 IN  ret.value[k] =
                        create_stamp(get_science(images[i]),
                                     get_x_pos(trj, time), get_y_pos(trj, time),
                                     ret.args[2], ret.args[3])

\* get_coadded_stamps raises an error when use_index_vect does not have
\* one entry per trajectory.
CoaddChecksUseIndexVect ==
    (ret.op = "get_coadded_stamps" /\ Len(ret.args[2]) # Len(ret.args[1])) =>
        ret.status # "ok"

\* C19: mismatched index vectors are errors, in create_stamps and the
\* stamp functions built on it (use_index of a length other than the image
\* count) and in get_coadded_stamps (use_index_vect without one entry per
\* trajectory); an empty use_index selects every image, any other the
\* images with a true entry, in image order.
C19_MismatchedIndexVectorsRaise ==
    /\ CreateStampsChecksUseIndex
    /\ CreateStampsUsesSelected
    /\ CoaddChecksUseIndexVect

\* The part of C19 that the code keeps: everything about create_stamps.
CreateStampsContract ==
    CreateStampsChecksUseIndex /\ CreateStampsUsesSelected

\* C20: get_coadded_stamps raises an error whenever radius <= 0 or
\* 2 * radius + 1 > MAX_STAMP_EDGE, whatever use_gpu is and whether or not
\* the build has the accelerator.
C20_InvalidRadiusRejected ==
    (ret.op = "get_coadded_stamps" /\ RadiusRejected(ret.args[3])) =>
        ret.status # "ok"

\* Only the accelerator path checks the radius.
GpuPathRejectsRadius ==
    (ret.op = "get_coadded_stamps" /\ RadiusRejected(ret.args[3])
        /\ ret.args[4] /\ have_cuda) =>
        ret.status = "Invalid Radius."

\* What get_median_stamp, get_mean_stamp or get_summed_stamp, the one of
\* the stamp type, returns for a trajectory, a radius and a use_index.
StampFunctionValue(trj, radius, use_index, stamp_type) ==
    CASE stamp_type = "STAMP_MEDIAN" ->
             StampOf("get_median_stamp", trj, radius, use_index, TRUE,
                     "STAMP_MEDIAN").value
      [] stamp_type = "STAMP_MEAN" ->
             StampOf("get_mean_stamp", trj, radius, use_index, TRUE,
                     "STAMP_MEAN").value
      [] stamp_type = "STAMP_SUM" ->
             StampOf("get_summed_stamp", trj, radius, use_index, FALSE,
                     "STAMP_SUM").value

\* get_coadded_stamps returned from its host path, without filtering.
CoaddedOnHost ==
    /\ Coadded
    /\ ~ret.args[3].do_filtering
    /\ ~(ret.args[4] /\ have_cuda)

\* C21: without filtering, the coadd that the host path of
\* get_coadded_stamps returns for a trajectory is the stamp that
\* get_median_stamp, get_mean_stamp or get_summed_stamp (the one of the
\* stamp type) returns for the same stack, trajectory, radius and
\* use_index; for the sum NO_DATA and pixels outside the image count as 0
\* on both.
C21_CoaddEqualsStampFunction ==
    CoaddedOnHost =>
        \A i \in 1..Len(ret.args[1]) :
            ret.value.stamps[i] =
                StampFunctionValue(ret.args[1][i], ret.args[3].radius,
                                   ret.value.used[i], ret.args[3].stamp_type)

\* A sum coadd over stamps of which one has a NO_DATA pixel where another
\* has a value.
C21_Witness ==
    /\ CoaddedOnHost
    /\ ret.args[3].stamp_type = "STAMP_SUM"
    /\ \E i \in 1..Len(ret.args[1]) :
         LET stamps == CreateStamps(images, ret.args[1][i], ret.args[3].radius,
                                    TRUE, ret.value.used[i])
         IN  \E p \in 1..Len(ret.value.stamps[i].pixels), a, b \in 1..Len(stamps) :
                /\ stamps[a].pixels[p] = NO_DATA
                /\ stamps[b].pixels[p] > 0
                /\ ret.value.stamps[i].pixels[p] = stamps[b].pixels[p]

\* The curve of trajectory t over imgs that samples, in image i, the pixel
\* (round(x + vx * t_i), round(y + vy * t_i)), NO_DATA read as 0.
RoundedCurve(t, imgs, times) ==
    [i \in 1..Len(imgs) |->
        LET pix_val == get_pixel(imgs[i], PredictedPixel(t.x, t.vx, times[i]),
                                 PredictedPixel(t.y, t.vy, times[i]))
        IN  IF pix_val = NO_DATA THEN 0 ELSE pix_val]

\* The images a curve operation reads.
CurveImages == IF ret.op = "psi_curves" THEN psi_images ELSE phi_images

\* C22: for every trajectory and every image i with zeroed time t_i, times
\* and velocities of either sign, the Psi/Phi curves sample the pixel
\* (round(x + vx * t_i), round(y + vy * t_i)), the one the trajectory
\* evaluation of the search reads.
C22_CurvesSampleRoundedPixel ==
    ret.op \in {"psi_curves", "phi_curves"} =>
        ret.value = RoundedCurve(ret.args.t, CurveImages, get_times(images))

\* What the code keeps: the rounded pixel where the displacement
\* velocity * time is not negative on either axis.
CurvesRoundForwardMotion ==
    (/\ ret.op \in {"psi_curves", "phi_curves"}
     /\ \A i \in 1..Len(images) :
          /\ ret.args.t.vx * get_times(images)[i] >= 0
          /\ ret.args.t.vy * get_times(images)[i] >= 0) =>
        ret.value = RoundedCurve(ret.args.t, CurveImages, get_times(images))

\* ---------------------------------------------------------------------
\* The flat buffers of search(), on the stacks of the search, on a stack
\* with a masked pixel and on a stack that the constructor of ImageStack
\* accepts although its images are 2 x 1 and 1 x 2.
\* ---------------------------------------------------------------------
MaskedStack ==
    <<LayeredImage(2, 1, 0, <<2, -1>>, <<1, 1>>, <<0, 1>>),
      LayeredImage(2, 1, 1, <<2, 2>>, <<1, 1>>, <<0, 0>>)>>
MixedStack ==
    <<LayeredImage(2, 1, 0, <<2, 2>>, <<1, 1>>, <<0, 0>>),
      LayeredImage(1, 2, 1, <<2, -1>>, <<1, 1>>, <<0, 0>>)>>
BufferStacks == SearchStacks \cup {MaskedStack, MixedStack}

InitBuffers ==
    /\ images \in BufferStacks
    /\ have_cuda \in BOOLEAN
    /\ params = DefaultParams(images)
    /\ psi_phi_generated = FALSE
    /\ psi_images = <<>>
    /\ phi_images = <<>>
    /\ search_list = <<>>
    /\ results = <<>>
    /\ ret = Returned("KBMOSearch", <<>>, <<>>, FALSE)
    /\ NoList

NextBuffers ==
    \/ preparePsiPhi
    \/ \E b \in XBounds : set_start_bounds_x(b[1], b[2])
    \/ \E g \in SearchGrids, m \in MinObsValues : search(g, m)

SpecBuffers == InitBuffers /\ [][NextBuffers]_vars

\* The flat buffer vect holds n * w * h values, and the value at index
\* t * w * h + y * w + x is pixel (x, y) of image t of imgs, a NO_DATA
\* pixel included.
RowMajorImageMajor(vect, imgs, n, w, h) ==
    /\ Len(vect) = n * w * h
    /\ \A t \in 0..(n - 1), x \in 0..(w - 1), y \in 0..(h - 1) :
         /\ t * w * h + y * w + x + 1 \in DOMAIN vect
         /\ vect[t * w * h + y * w + x + 1] = get_pixel(imgs[t + 1], x, y)

BuffersRowMajor ==
    /\ RowMajorImageMajor(FlatVect(psi_images), psi_images, img_count(images),
                          get_width(images), get_height(images))
    /\ RowMajorImageMajor(FlatVect(phi_images), phi_images, img_count(images),
                          get_width(images), get_height(images))

\* C23: the flat Psi and Phi buffers that search() hands to the kernel
\* each hold N * W * H values, and the value at index t * W * H + y * W + x
\* is pixel (x, y) of the t-th Psi (Phi) image, NO_DATA copied unchanged,
\* with the same index in both buffers.
C23_FlatBuffersRowMajor ==
    Searched => BuffersRowMajor

\* What the code keeps: the layout on the stacks whose images share one
\* size.
FlatBuffersOnUniformStacks ==
    (Searched /\ UniformStack(images)) => BuffersRowMajor

\* d is within one scale step of v: |d - v| <= width / num_values.  Under
\* the width of 1e-6 a step is below any difference of pixel values.
WithinOneStep(d, v, sp) ==
    IF sp.scale[1] >= Million
    THEN Abs(d - v) * sp.scale[2] <= sp.scale[1] \div Million
    ELSE d = v

\* The scale parameters are those of computeImageScaling: min and max of
\* the image, a positive width of at least 1e-6, 2^(8b) - 1 steps.
ScaleOfImage(sp, img, num_bytes) ==
    /\ sp.min_val = compute_bounds(img)[1]
    /\ sp.max_val = compute_bounds(img)[2]
    /\ sp.scale[2] = 2 ^ (8 * num_bytes) - 1
    /\ sp.scale[1] >= 1
    /\ sp.scale[1] >= (sp.max_val - sp.min_val) * Million

\* Every pixel v of the images vect, encoded and decoded with the scale
\* parameters of its image, is NO_DATA if v is NO_DATA and is otherwise
\* a value within one scale step of v.  From `lowest` on only: the pixels
\* above the minimum of their image by at least `lowest`.
RoundTrips(vect, scale_vect, num_bytes, lowest) ==
    \A i \in 1..Len(vect) :
        /\ ScaleOfImage(scale_vect[i], vect[i], num_bytes)
        /\ \A p \in 1..Len(vect[i].pixels) :
             LET v == vect[i].pixels[p]
                 d == Decoded(Encoded(v, scale_vect[i], NumValues(num_bytes)),
                              scale_vect[i])
             IN  IF v = NO_DATA THEN d = NO_DATA
                 ELSE v - scale_vect[i].min_val >= lowest =>
                        d # NO_DATA /\ WithinOneStep(d, v, scale_vect[i])

\* C24: with an encoding of 1 or 2 bytes and the scale parameters of
\* computeImageScaling, every value of an image that is not NO_DATA, its
\* minimum included, decodes after encoding to a value within one scale
\* step of it and never to NO_DATA, and NO_DATA encodes to 0 and decodes
\* to NO_DATA.
C24_EncodingRoundTrip ==
    Searched =>
        /\ params.psi_num_bytes \in {1, 2} =>
              RoundTrips(psi_images, ret.value.psi_scale, params.psi_num_bytes, 0)
        /\ params.phi_num_bytes \in {1, 2} =>
              RoundTrips(phi_images, ret.value.phi_scale, params.phi_num_bytes, 0)

\* What holds of the encoding: the round trip of the values above the
\* minimum of their image.
RoundTripAboveMinimum ==
    Searched =>
        /\ params.psi_num_bytes \in {1, 2} =>
              RoundTrips(psi_images, ret.value.psi_scale, params.psi_num_bytes, 1)
        /\ params.phi_num_bytes \in {1, 2} =>
              RoundTrips(phi_images, ret.value.phi_scale, params.phi_num_bytes, 1)

\* ---------------------------------------------------------------------
\* search() on the accelerator, thread by thread: one thread per start
\* pixel of the search rectangle, each writing its RESULTS_PER_PIXEL best
\* trajectories into the result buffer, in any interleaving.  While the
\* kernel runs, ret holds the call with status "running", the number of
\* writes each thread has done, the threads that wrote each slot and
\* whether a write fell outside the buffer.
\* ---------------------------------------------------------------------
\* The threads of a launch: the start pixels of a rectangle of positive
\* width and height.
KernelThreads(p) ==
    IF p.x_start_max > p.x_start_min /\ p.y_start_max > p.y_start_min
    THEN {<<x, y>> : x \in p.x_start_min..(p.x_start_max - 1),
                     y \in p.y_start_min..(p.y_start_max - 1)}
    ELSE {}

\* The slot (1-based) of result k (0-based) of the thread of start pixel
\* px: ((y - y_min) * search_width + (x - x_min)) * RESULTS_PER_PIXEL + k.
SlotOf(px, k, p) ==
    ((px[2] - p.y_start_min) * (p.x_start_max - p.x_start_min)
        + (px[1] - p.x_start_min)) * RESULTS_PER_PIXEL + k + 1

Running == ret.op = "search" /\ ret.status = "running"

\* The buffers the kernel reads, from the searcher's state.
KernelPsi ==
    Evaluated(KernelVect(psi_images,
        IF params.psi_num_bytes > 0
        THEN Evaluated(computeImageScaling(psi_images, params.psi_num_bytes))
        ELSE <<>>, params.psi_num_bytes))
KernelPhi ==
    Evaluated(KernelVect(phi_images,
        IF params.phi_num_bytes > 0
        THEN Evaluated(computeImageScaling(phi_images, params.phi_num_bytes))
        ELSE <<>>, params.phi_num_bytes))

\* search() up to the launch of the kernel, in a build with CUDA.
search_launch(g, min_observations) ==
    LET psi == PreparedPsi(images, psi_phi_generated, psi_images)
        phi == PreparedPhi(images, psi_phi_generated, phi_images)
        max_results == MaxResults(params)
        searched == [params EXCEPT !.min_observations = min_observations]
        args == [grid |-> g, min_observations |-> min_observations]
    IN  /\ have_cuda
        /\ VectsWellFormed(psi, phi)
        /\ psi_phi_generated' = TRUE
        /\ psi_images' = psi
        /\ phi_images' = phi
        /\ search_list' = Evaluated(createSearchList(g))
        /\ IF max_results < 0
           THEN /\ ret' = Raised("search", args, "length_error")
                /\ UNCHANGED <<params, results>>
           ELSE /\ params' = searched
                /\ results' = AllocatedResults(max_results)
                /\ ret' = [op |-> "search", args |-> args, status |-> "running",
                           value |-> [pc |-> [px \in KernelThreads(searched) |-> 0],
                                      writers |-> [i \in 1..max_results |-> {}],
                                      outside |-> FALSE],
                           oob |-> FALSE]
        /\ UNCHANGED <<stackVars, listVars, have_cuda>>

\* One write of the thread of start pixel px: its next best trajectory,
\* into its next slot.
kernel_thread_write(px) ==
    /\ Running
    /\ px \in DOMAIN ret.value.pc
    /\ ret.value.pc[px] < RESULTS_PER_PIXEL
    /\ LET k == ret.value.pc[px]
           slot == SlotOf(px, k, params)
           best == BestOfPixel(KernelPsi, KernelPhi, ZeroedTimes(images),
                       get_width(images), get_height(images), params,
                       search_list, px[1], px[2])
       IN  IF slot \in 1..Len(results)
           THEN /\ results' = [results EXCEPT ![slot] = best[k + 1]]
                /\ ret' = [ret EXCEPT !.value.pc[px] = k + 1,
                                      !.value.writers[slot] = @ \cup {px}]
           ELSE /\ results' = results
                /\ ret' = [ret EXCEPT !.value.pc[px] = k + 1,
                                      !.value.outside = TRUE,
                                      !.oob = TRUE]
    /\ UNCHANGED <<stackVars, listVars, have_cuda, params, psi_phi_generated,
                   psi_images, phi_images, search_list>>

\* The kernel is done: search() sorts the results and returns.
search_return ==
    /\ Running
    /\ \A px \in DOMAIN ret.value.pc : ret.value.pc[px] = RESULTS_PER_PIXEL
    /\ results' \in sortResults(results)
    /\ ret' = [ret EXCEPT !.status = "ok"]
    /\ UNCHANGED <<stackVars, listVars, have_cuda, params, psi_phi_generated,
                   psi_images, phi_images, search_list>>

InitKernel == InitSearch /\ have_cuda

NextKernel ==
    \/ ~Running /\ \E b \in XBounds : set_start_bounds_x(b[1], b[2])
    \/ ~Running /\ \E b \in YBounds : set_start_bounds_y(b[1], b[2])
    \/ ~Running /\ \E g \in SearchGrids, m \in MinObsValues : search_launch(g, m)
    \/ Running /\ \E px \in DOMAIN ret.value.pc : kernel_thread_write(px)
    \/ search_return

SpecKernel == InitKernel /\ [][NextKernel]_vars

\* The slots that the start pixel px owns, and the start pixels that own
\* slot s.
OwnedSlots(px) == {SlotOf(px, k, params) : k \in 0..(RESULTS_PER_PIXEL - 1)}
OwnersOf(s) == {px \in StartPixels : s \in OwnedSlots(px)}

\* The kernel of a search is running or has run.
KernelLaunched == ret.op = "search" /\ ret.status \in {"running", "ok"}

\* Every start pixel owns RESULTS_PER_PIXEL consecutive slots of the
\* buffer.
PixelsOwnConsecutiveSlots ==
    \A px \in StartPixels :
        /\ OwnedSlots(px) \subseteq 1..Len(results)
        /\ OwnedSlots(px) = SlotOf(px, 0, params)..
                                (SlotOf(px, 0, params) + RESULTS_PER_PIXEL - 1)

\* Every slot of the buffer is owned by exactly one start pixel.
SlotsHaveOneOwner ==
    \A s \in 1..Len(results) : Cardinality(OwnersOf(s)) = 1

\* No two threads wrote one slot, no thread wrote a slot it does not own,
\* and none wrote outside the buffer.
WritesArePrivate ==
    /\ ~ret.value.outside
    /\ \A s \in 1..Len(results) :
         /\ Cardinality(ret.value.writers[s]) <= 1
         /\ ret.value.writers[s] \subseteq OwnersOf(s)

\* C25: on the accelerator the slots written for different start pixels
\* are disjoint: every start pixel of the search rectangle owns
\* RESULTS_PER_PIXEL consecutive slots of the result buffer, every slot
\* has exactly one owner, and in no interleaving of the threads do two of
\* them write one slot or does one write outside the buffer.
C25_ResultSlotsDisjoint ==
    KernelLaunched =>
        /\ PixelsOwnConsecutiveSlots
        /\ SlotsHaveOneOwner
        /\ WritesArePrivate

\* What holds in every launch: the writes of the threads are private and
\* inside the buffer, and every start pixel owns its consecutive slots.
ThreadsWritePrivateSlots ==
    KernelLaunched => PixelsOwnConsecutiveSlots /\ WritesArePrivate

\* With start bounds in ascending order on both axes every slot has one
\* owner as well.
SlotsOwnedUnderOrderedBounds ==
    (/\ KernelLaunched
     /\ params.x_start_min <= params.x_start_max
     /\ params.y_start_min <= params.y_start_max) => SlotsHaveOneOwner

\* The threads together leave in the buffer what deviceSearchFilter
\* computes.
ThreadsComputeSearch ==
    [][(Running /\ ret'.status = "ok") =>
          results = Evaluated(deviceSearchFilter(KernelPsi, KernelPhi,
                        ZeroedTimes(images), get_width(images),
                        get_height(images), params, search_list,
                        [i \in 1..Len(results) |-> DefaultTrajectory]))]_vars

\* ---------------------------------------------------------------------
\* The result list: get_results, set_results, filter_results and
\* filter_resultsLH, after searches or on injected results.
\* ---------------------------------------------------------------------
\* The result lists handed to set_results, sorted by likelihood or not.
InjectedResults ==
    {<<>>,
     <<Trajectory(0, 0, 1, 0, 500, 5, 2)>>,
     <<Trajectory(0, 0, 1, 0, 500, 5, 2), Trajectory(1, 0, 0, 0, 300, 3, 1),
       Trajectory(1, 0, 1, 0, 300, 3, 2)>>,
     <<Trajectory(0, 0, 0, 1, 100, 1, 0), Trajectory(1, 0, 0, 0, 400, 4, 2),
       Trajectory(1, 0, 1, 0, 400, 4, 1)>>}
StartValues == -1..5
CountValues == {-1, 0, 1, 2, 5}
ObsCutoffs == 0..3
LhCutoffs == {0, 300, 350, 600}

\* The count of get_results after its first statement:
\* start + count >= results.size() compares as unsigned, so a negative sum
\* counts as larger than any size; results.size() - start is converted to
\* int.
ClampedCountMutant(start, count, n) ==
    IF start + count < 0 \/ start + count >= n THEN n ELSE count
ClampedCount(start, count, n) ==
    IF start + count < 0 \/ start + count >= n THEN n - start ELSE count

\* std::vector<trajectory> KBMOSearch::get_results(int start, int count).
\* A range whose end lies before its beginning has a negative length,
\* which the constructor of the vector rejects with std::length_error; a
\* range reaching beyond the results is a read outside them.
get_results(start, count) ==
    LET n == Len(results)
        args == [start |-> start, count |-> count]
        last == start + ClampedCount(start, count, n)
    IN  /\ ret' = IF start < 0
                  THEN Raised("get_results", args, "start must be 0 or greater")
                  ELSE IF last < start
                  THEN Raised("get_results", args, "length_error")
                  ELSE IF last > n
                  THEN Returned("get_results", args,
                                [i \in 1..(last - start) |->
                                    IF start + i <= n THEN results[start + i]
                                    ELSE DefaultTrajectory], TRUE)
                  ELSE Returned("get_results", args,
                                SubSeq(results, start + 1, last), FALSE)
        /\ UNCHANGED <<stackVars, listVars, searchVars>>

\* void KBMOSearch::set_results(const std::vector<trajectory>& new_results)
set_results(new_results) ==
    /\ results' = new_results
    /\ ret' = Returned("set_results", new_results, <<>>, FALSE)
    /\ UNCHANGED <<stackVars, listVars, have_cuda, params, psi_phi_generated,
                   psi_images, phi_images, search_list>>

\* std::remove_if followed by erase: the elements res[i] for which
\* removed[i] is false, in their order.
RECURSIVE RemoveIf(_, _)
RemoveIf(res, removed) ==
    IF res = <<>> THEN <<>>
    ELSE LET rest == RemoveIf(SubSeq(res, 1, Len(res) - 1), removed)
         IN  IF removed[Len(res)] THEN rest ELSE Append(rest, res[Len(res)])

\* void KBMOSearch::filter_results(int min_observations)
filter_results_mutant(min_observations) ==
    /\ results' = RemoveIf(results,
                    [i \in 1..Len(results) |-> results[i].obs_count <= min_observations])
    /\ ret' = Returned("filter_results", min_observations, <<>>, FALSE)
    /\ UNCHANGED <<stackVars, listVars, have_cuda, params, psi_phi_generated,
                   psi_images, phi_images, search_list>>
filter_results(min_observations) ==
    /\ results' = RemoveIf(results,
                    [i \in 1..Len(results) |-> results[i].obs_count < min_observations])
    /\ ret' = Returned("filter_results", min_observations, <<>>, FALSE)
    /\ UNCHANGED <<stackVars, listVars, have_cuda, params, psi_phi_generated,
                   psi_images, phi_images, search_list>>

\* void KBMOSearch::filter_resultsLH(float min_lh), min_lh in hundredths.
filter_resultsLH(min_lh) ==
    /\ results' = RemoveIf(results,
                    [i \in 1..Len(results) |-> results[i].lh < min_lh])
    /\ ret' = Returned("filter_resultsLH", min_lh, <<>>, FALSE)
    /\ UNCHANGED <<stackVars, listVars, have_cuda, params, psi_phi_generated,
                   psi_images, phi_images, search_list>>

NextResults ==
    \/ \E g \in SearchGrids, m \in MinObsValues : search(g, m)
    \/ \E r \in InjectedResults : set_results(r)
    \/ \E start \in StartValues, count \in CountValues : get_results(start, count)
    \/ \E m \in ObsCutoffs : filter_results(m)
    \/ \E l \in LhCutoffs : filter_resultsLH(l)

SpecResults == InitSearch /\ [][NextResults]_vars

SmallerOf(a, b) == IF a < b THEN a ELSE b

\* C26: for n results, get_results(start, count) with 0 <= start <= n and
\* count >= 0 returns the min(count, n - start) results from position
\* start on, in list order; a negative start raises an error; a start
\* beyond n raises an error or returns an empty list; no call changes the
\* results or reads outside them.
C26_GetResultsWindow ==
    [][ret'.op = "get_results" =>
          LET n == Len(results)
              start == ret'.args.start
              count == ret'.args.count
          IN  /\ results' = results
              /\ ~ret'.oob
              /\ (start \in 0..n /\ count >= 0) =>
                    /\ ret'.status = "ok"
                    /\ Len(ret'.value) = SmallerOf(count, n - start)
                    /\ \A i \in 1..Len(ret'.value) :
                          ret'.value[i] = results[start + i]
              /\ start < 0 => ret'.status # "ok"
              /\ start > n => (ret'.status # "ok" \/ ret'.value = <<>>)]_vars

\* A window cut short by the end of the results.
C26_Witness ==
    /\ ret.op = "get_results"
    /\ ret.status = "ok"
    /\ Len(results) = 3
    /\ ret.args.start = 1
    /\ ret.args.count = 5
    /\ ret.value = SubSeq(results, 2, 3)

\* res is in non-increasing order of likelihood.
SortedByLh(res) ==
    \A i, j \in 1..Len(res) : i < j => res[i].lh >= res[j].lh

\* new holds exactly the elements of old at the positions kept, in their
\* order in old.
KeepsInOrder(old, new, kept) ==
    /\ Len(new) = Cardinality(kept)
    /\ \A k \in 1..Len(new) :
         new[k] = old[CHOOSE i \in kept :
                          Cardinality({j \in kept : j < i}) = k - 1]
    /\ SortedByLh(old) => SortedByLh(new)

\* C27: filter_results(min_observations) removes exactly the results with
\* obs_count < min_observations and filter_resultsLH(min_lh) exactly those
\* with lh < min_lh; the others keep their relative order, a list sorted
\* by likelihood stays sorted, and since no remaining result is below the
\* cutoff a second application removes nothing.
C27_FiltersKeepOrder ==
    [][/\ ret'.op = "filter_results" =>
            /\ KeepsInOrder(results, results',
                   {i \in 1..Len(results) : results[i].obs_count >= ret'.args})
            /\ \A k \in 1..Len(results') : results'[k].obs_count >= ret'.args
       /\ ret'.op = "filter_resultsLH" =>
            /\ KeepsInOrder(results, results',
                   {i \in 1..Len(results) : results[i].lh >= ret'.args})
            /\ \A k \in 1..Len(results') : results'[k].lh >= ret'.args]_vars

\* filter_results(2) took the middle one out of three injected results.
C27_Witness ==
    /\ ret.op = "filter_results"
    /\ ret.args = 2
    /\ results = <<Trajectory(0, 0, 1, 0, 500, 5, 2),
                   Trajectory(1, 0, 1, 0, 300, 3, 2)>>

\* ---------------------------------------------------------------------
\* The searcher of a build without CUDA: every search() fails, after it
\* has changed the searcher.
\* ---------------------------------------------------------------------
InitFailedSearch == InitSearch /\ ~have_cuda

NextFailedSearch ==
    \/ \E b \in XBounds : set_start_bounds_x(b[1], b[2])
    \/ \E b \in YBounds : set_start_bounds_y(b[1], b[2])
    \/ \E g \in SearchGrids, m \in MinObsValues : search(g, m)
    \/ \E r \in InjectedResults : set_results(r)
    \/ \E start \in StartValues, count \in CountValues : get_results(start, count)

SpecFailedSearch == InitFailedSearch /\ [][NextFailedSearch]_vars

NotImplemented ==
    ret.op = "search" /\ ret.status = "Non-GPU search is not implemented."

AllDefault(res) == \A i \in 1..Len(res) : res[i] = DefaultTrajectory

\* C28: when search() ends with the 'Non-GPU search is not implemented'
\* error, psi_phi_generated is true, params.min_observations is the
\* argument of the call, and the results are
\* (x_max - x_min) * (y_max - y_min) * RESULTS_PER_PIXEL default
\* trajectories in place of the previous results; a following get_results
\* returns them.
C28_FailedSearchMutates ==
    /\ [](NotImplemented =>
            /\ psi_phi_generated
            /\ Len(psi_images) = img_count(images)
            /\ params.min_observations = ret.args.min_observations
            /\ Len(results) =
                  (params.x_start_max - params.x_start_min)
                    * (params.y_start_max - params.y_start_min)
                    * RESULTS_PER_PIXEL
            /\ AllDefault(results))
    /\ [][(NotImplemented /\ ret'.op = "get_results"
              /\ ret'.args.start = 0 /\ ret'.args.count >= Len(results)) =>
             /\ ret'.status = "ok"
             /\ ret'.value = results
             /\ AllDefault(ret'.value)]_vars

\* get_results returned the four default trajectories that a failed
\* search left where there were none or injected ones before.
C28_Witness ==
    /\ ret.op = "get_results"
    /\ ret.status = "ok"
    /\ Len(ret.value) = 2 * RESULTS_PER_PIXEL
    /\ AllDefault(ret.value)
    /\ psi_phi_generated
    /\ params.min_observations = 2

============================================================================
